---- MODULE Spec2Model ----
(***************************************************************************)
(* VisuraParser (src/uppi/docs/visura_pdf_parser.py): the extraction core  *)
(* that turns a cadastral PDF into a flat list of property records.        *)
(*                                                                         *)
(* Text is a sequence of one-character strings, so that the regular        *)
(* expressions, strip/replace/splitlines and the header rules act on the   *)
(* characters as the Python code does.  A dict is a function from key      *)
(* names to values; a value is a text, None or a float.                    *)
(***************************************************************************)
EXTENDS Integers, Sequences, FiniteSets, TLC

(***************************************************************************)
(* Python str                                                              *)
(***************************************************************************)

\* Python's None: a one-element sequence that is no text (a text has only
\* one-character elements).
None == <<"<None>">>

\* A function on 1..n as the tuple of its values.
tuple(f) == f \o <<>>

\* A literal as text.
Str(s) == tuple([i \in 1..Len(s) |-> SubSeq(s, i, i)])

CharsOf(s) == {SubSeq(s, i, i) : i \in 1..Len(s)}

WHITESPACE == {" ", "\n", "\t"}
DIGITS == CharsOf("0123456789")
ASCII_UPPER == CharsOf("ABCDEFGHIJKLMNOPQRSTUVWXYZ")
ASCII_LOWER == CharsOf("abcdefghijklmnopqrstuvwxyz")
ACCENTED_UPPER == CharsOf("ÀÈÌÒÙ")

LowerCaseLetters == "abcdefghijklmnopqrstuvwxyzàèìòù"
UpperCaseLetters == "ABCDEFGHIJKLMNOPQRSTUVWXYZÀÈÌÒÙ"

UpperOf ==
    [c \in CharsOf(LowerCaseLetters) |->
        LET i == CHOOSE j \in 1..Len(LowerCaseLetters) : SubSeq(LowerCaseLetters, j, j) = c
        IN  SubSeq(UpperCaseLetters, i, i)]

LowerOf ==
    [c \in CharsOf(UpperCaseLetters) |->
        LET i == CHOOSE j \in 1..Len(UpperCaseLetters) : SubSeq(UpperCaseLetters, j, j) = c
        IN  SubSeq(LowerCaseLetters, i, i)]

char_upper(c) == IF c \in DOMAIN UpperOf THEN UpperOf[c] ELSE c
char_lower(c) == IF c \in DOMAIN LowerOf THEN LowerOf[c] ELSE c

\* str.upper(), str.lower()
str_upper(s) == tuple([i \in 1..Len(s) |-> char_upper(s[i])])
str_lower(s) == tuple([i \in 1..Len(s) |-> char_lower(s[i])])

RECURSIVE lstrip(_, _)
lstrip(s, cs) ==
    IF Len(s) > 0 /\ s[1] \in cs THEN lstrip(SubSeq(s, 2, Len(s)), cs) ELSE s

RECURSIVE rstrip(_, _)
rstrip(s, cs) ==
    IF Len(s) > 0 /\ s[Len(s)] \in cs THEN rstrip(SubSeq(s, 1, Len(s) - 1), cs) ELSE s

\* str.strip(chars); str.strip() strips whitespace
strip_chars(s, cs) == rstrip(lstrip(s, cs), cs)
strip(s) == strip_chars(s, WHITESPACE)

\* str.replace(old, new, count); count = -1 replaces every occurrence
RECURSIVE str_replace(_, _, _, _)
str_replace(s, old, new, count) ==
    IF count = 0 \/ Len(s) < Len(old) THEN s
    ELSE IF SubSeq(s, 1, Len(old)) = old
         THEN new \o str_replace(SubSeq(s, Len(old) + 1, Len(s)), old, new, count - 1)
         ELSE <<s[1]>> \o str_replace(SubSeq(s, 2, Len(s)), old, new, count)

\* sub in s
str_contains(s, sub) ==
    \E i \in 1..(Len(s) - Len(sub) + 1) : SubSeq(s, i, i + Len(sub) - 1) = sub

\* str.splitlines()
RECURSIVE splitlines(_)
splitlines(s) ==
    IF Len(s) = 0 THEN <<>>
    ELSE IF \E k \in 1..Len(s) : s[k] = "\n"
         THEN LET k == CHOOSE j \in 1..Len(s) :
                           s[j] = "\n" /\ \A h \in 1..(j - 1) : s[h] # "\n"
              IN  <<SubSeq(s, 1, k - 1)>> \o splitlines(SubSeq(s, k + 1, Len(s)))
         ELSE <<s>>

\* sep.join(xs)
RECURSIVE str_join(_, _)
str_join(sep, xs) ==
    IF Len(xs) = 0 THEN <<>>
    ELSE IF Len(xs) = 1 THEN xs[1]
    ELSE xs[1] \o sep \o str_join(sep, Tail(xs))

\* A text as a dict key.
RECURSIVE KeyOf(_)
KeyOf(s) == IF Len(s) = 0 THEN "" ELSE s[1] \o KeyOf(Tail(s))

(***************************************************************************)
(* Python re: a backtracking matcher.  re_bt matches the nodes of todo in  *)
(* order from position i and returns the first match in the priority order *)
(* of the regular expression (greedy before shorter, first alternative     *)
(* before second), as re does.                                             *)
(***************************************************************************)

\* no upper limit of a repetition (+, *, {n,})
Inf == -1

Lit(c) == [k |-> "lit", c |-> c]
Cls(S) == [k |-> "cls", s |-> S]
NotCls(S) == [k |-> "ncls", s |-> S]
Dot == [k |-> "dot"]
Bol == [k |-> "bol"]
Word(w) == [k |-> "word", w |-> Str(w)]
Cat(xs) == [k |-> "cat", xs |-> xs]
Alt(xs) == [k |-> "alt", xs |-> xs]
Rep(x, lo, hi) == [k |-> "rep", x |-> x, lo |-> lo, hi |-> hi, greedy |-> TRUE]
LazyRep(x, lo, hi) == [k |-> "rep", x |-> x, lo |-> lo, hi |-> hi, greedy |-> FALSE]
Grp(n, x) == [k |-> "grp", n |-> n, x |-> x]
Opt(x) == Rep(x, 0, 1)
Plus(x) == Rep(x, 1, Inf)
Star(x) == Rep(x, 0, Inf)

NoMatch == [ok |-> FALSE]

char_eq(a, b, ic) == a = b \/ (ic /\ char_upper(a) = char_upper(b))
in_class(c, S, ic) == c \in S \/ (ic /\ (char_upper(c) \in S \/ char_lower(c) \in S))

\* the nodes that match exactly one character
OneChar == {"lit", "cls", "ncls", "dot"}

char_ok(x, c, ic) ==
    CASE x.k = "lit" -> char_eq(c, x.c, ic)
      [] x.k = "cls" -> in_class(c, x.s, ic)
      [] x.k = "ncls" -> ~in_class(c, x.s, ic)
      [] x.k = "dot" -> c # "\n"

\* how many characters from position i on match the one-character node x,
\* hi at most
run_length(x, s, i, hi, ic) ==
    LET most == IF hi = Inf \/ hi > Len(s) - i + 1 THEN Len(s) - i + 1 ELSE hi
    IN  CHOOSE c \in 0..most :
            /\ \A j \in 0..(c - 1) : char_ok(x, s[i + j], ic)
            /\ c = most \/ ~char_ok(x, s[i + c], ic)

RECURSIVE re_bt(_, _, _, _, _)
RECURSIVE re_rep_count(_, _, _, _, _, _, _)

\* the repetition of a one-character node: the counts c, c + step, ..., last of
\* repeated characters are tried in this order until the rest matches
re_rep_count(rest, s, i, caps, ic, c, lim) ==
    LET r == re_bt(rest, s, i + c, caps, ic)
    IN  IF r.ok \/ c = lim.last THEN r
        ELSE re_rep_count(rest, s, i, caps, ic, c + lim.step, lim)

re_bt(todo, s, i, caps, ic) ==
    IF Len(todo) = 0 THEN [ok |-> TRUE, end |-> i, caps |-> caps]
    ELSE
    LET n == todo[1]
        rest == Tail(todo)
    IN
    CASE n.k \in OneChar ->
           IF i <= Len(s) /\ char_ok(n, s[i], ic)
           THEN re_bt(rest, s, i + 1, caps, ic) ELSE NoMatch
      [] n.k = "word" ->
           IF /\ i + Len(n.w) - 1 <= Len(s)
              /\ \A j \in 1..Len(n.w) : char_eq(s[i + j - 1], n.w[j], ic)
           THEN re_bt(rest, s, i + Len(n.w), caps, ic) ELSE NoMatch
      [] n.k = "bol" ->
           IF i = 1 THEN re_bt(rest, s, i, caps, ic) ELSE NoMatch
      [] n.k = "cat" -> re_bt(n.xs \o rest, s, i, caps, ic)
      [] n.k = "alt" ->
           IF Len(n.xs) = 0 THEN NoMatch
           ELSE LET r == re_bt(<<n.xs[1]>> \o rest, s, i, caps, ic)
                IN  IF r.ok THEN r
                    ELSE re_bt(<<Alt(Tail(n.xs))>> \o rest, s, i, caps, ic)
      [] n.k = "rep" /\ n.x.k \in OneChar ->
           LET most == run_length(n.x, s, i, n.hi, ic)
           IN  IF most < n.lo THEN NoMatch
               ELSE IF n.greedy
                    THEN re_rep_count(rest, s, i, caps, ic, most,
                                      [last |-> n.lo, step |-> -1])
                    ELSE re_rep_count(rest, s, i, caps, ic, n.lo,
                                      [last |-> most, step |-> 1])
      [] n.k = "rep" /\ n.x.k \notin OneChar ->
           LET again == [n EXCEPT !.lo = IF n.lo > 0 THEN n.lo - 1 ELSE 0,
                                  !.hi = IF n.hi = Inf THEN Inf ELSE n.hi - 1]
               more == re_bt(<<n.x, again>> \o rest, s, i, caps, ic)
               stop == re_bt(rest, s, i, caps, ic)
           IN  IF n.lo > 0 THEN more
               ELSE IF n.hi = 0 THEN stop
               ELSE IF n.greedy
                    THEN (IF more.ok THEN more ELSE stop)
                    ELSE (IF stop.ok THEN stop ELSE more)
      [] n.k = "grp" ->
           re_bt(<<n.x, [k |-> "end", n |-> n.n, from |-> i]>> \o rest, s, i, caps, ic)
      [] n.k = "end" ->
           re_bt(rest, s, i, (n.n :> <<n.from, i>>) @@ caps, ic)

\* pattern.match(s): anchored at the start of s
re_match(p, s) ==
    LET r == re_bt(<<p.re>>, s, 1, <<>>, p.ic)
    IN  IF r.ok THEN [ok |-> TRUE, start |-> 1, end |-> r.end, caps |-> r.caps]
        ELSE NoMatch

\* pattern.search(s): the leftmost match
RECURSIVE re_search_from(_, _, _)
re_search_from(p, s, i) ==
    IF i > Len(s) + 1 THEN NoMatch
    ELSE LET r == re_bt(<<p.re>>, s, i, <<>>, p.ic)
         IN  IF r.ok THEN [ok |-> TRUE, start |-> i, end |-> r.end, caps |-> r.caps]
             ELSE re_search_from(p, s, i + 1)

re_search(p, s) == re_search_from(p, s, 1)

\* m.group(n)
group(m, s, n) ==
    IF n = 0 THEN SubSeq(s, m.start, m.end - 1)
    ELSE IF n \in DOMAIN m.caps THEN SubSeq(s, m.caps[n][1], m.caps[n][2] - 1)
    ELSE None

\* re.sub(p, repl, s) for a pattern that matches no empty text
RECURSIVE re_sub(_, _, _)
re_sub(p, repl, s) ==
    LET m == re_search(p, s)
    IN  IF ~m.ok THEN s
        ELSE SubSeq(s, 1, m.start - 1) \o repl \o re_sub(p, repl, SubSeq(s, m.end, Len(s)))

\* re.split(p, s, 1)[0]
re_split_first(p, s) ==
    LET m == re_search(p, s)
    IN  IF m.ok THEN SubSeq(s, 1, m.start - 1) ELSE s

(***************************************************************************)
(* The patterns and keyword tables of VisuraParser                         *)
(***************************************************************************)

WS == Cls(WHITESPACE)
UpperAlnum == Cls(ASCII_UPPER \cup DIGITS)

\* ^([A-ZÀÈÌÒÙ]{2,})\s+([A-Za-zÀÈÌÒÙ]+)\s+\(CF:\s*([A-Z0-9]{16})\)
NAME_CF ==
    [ic |-> FALSE,
     re |-> Cat(<<Bol,
                  Grp(1, Rep(Cls(ASCII_UPPER \cup ACCENTED_UPPER), 2, Inf)),
                  Plus(WS),
                  Grp(2, Plus(Cls(ASCII_UPPER \cup ASCII_LOWER \cup ACCENTED_UPPER))),
                  Plus(WS),
                  Word("(CF:"),
                  Star(WS),
                  Grp(3, Rep(UpperAlnum, 16, 16)),
                  Lit(")")>>)]

\* Immobili\s+siti\s+nel\s+Comune\s+di\s+(.+?)\s+\(Codice\s+([A-Z0-9]+)\)  IGNORECASE
COMUNE_TABLE ==
    [ic |-> TRUE,
     re |-> Cat(<<Word("Immobili"), Plus(WS), Word("siti"), Plus(WS), Word("nel"),
                  Plus(WS), Word("Comune"), Plus(WS), Word("di"), Plus(WS),
                  Grp(1, LazyRep(Dot, 1, Inf)),
                  Plus(WS), Word("(Codice"), Plus(WS),
                  Grp(2, Plus(UpperAlnum)),
                  Lit(")")>>)]

NumberChars == Cls(DIGITS \cup {".", ","})

\* Totale:\s*([0-9.,]+)
SUPERFICIE_TOTALE ==
    [ic |-> FALSE,
     re |-> Cat(<<Word("Totale:"), Star(WS), Grp(1, Plus(NumberChars))>>)]

\* Totale escluse aree\s*scoperte\*\*:\s*([0-9.,]+)
SUPERFICIE_ESCLUSE ==
    [ic |-> FALSE,
     re |-> Cat(<<Word("Totale escluse aree"), Star(WS), Word("scoperte**:"),
                  Star(WS), Grp(1, Plus(NumberChars))>>)]

GROUPED_HEADER_KEYWORDS ==
    <<Str("DATI IDENTIFICATIVI"), Str("DATI DI CLASSAMENTO"), Str("ALTRE INFORMAZIONI")>>

INTABULAZIONE_KEYWORDS ==
    <<Str("DATI ANAGRAFICI"), Str("DIRITTI E ONERI REALI")>>

REAL_ESTATE_COLUMNS ==
    {Str("Foglio"), Str("Numero"), Str("Sub"), Str("Categoria"), Str("Classe")}

\* (?:n\.?\s*)?([\d]+[A-Z]?[\-/\dA-Z]*|SNC)  IGNORECASE
VIA_NUM_PATTERN ==
    [ic |-> TRUE,
     re |-> Cat(<<Opt(Cat(<<Lit("n"), Opt(Lit(".")), Star(WS)>>)),
                  Grp(1, Alt(<<Cat(<<Plus(Cls(DIGITS)),
                                    Opt(Cls(ASCII_UPPER)),
                                    Star(Cls({"-", "/"} \cup DIGITS \cup ASCII_UPPER))>>),
                               Word("SNC")>>))>>)]

\* (SCALA|SC\.?)\s*([A-Z0-9]+)  IGNORECASE
SCALA_PATTERN ==
    [ic |-> TRUE,
     re |-> Cat(<<Grp(1, Alt(<<Word("SCALA"), Cat(<<Word("SC"), Opt(Lit("."))>>)>>)),
                  Star(WS),
                  Grp(2, Plus(UpperAlnum))>>)]

\* (INTERNO|INT\.?)\s*([A-Z0-9]+)  IGNORECASE
INTERNO_PATTERN ==
    [ic |-> TRUE,
     re |-> Cat(<<Grp(1, Alt(<<Word("INTERNO"), Cat(<<Word("INT"), Opt(Lit("."))>>)>>)),
                  Star(WS),
                  Grp(2, Plus(UpperAlnum))>>)]

\* (PIANO|P\.?)\s*([-A-Z0-9°]+|T|TERRA|RIALZATO|AMMEZZATO|S\d)  IGNORECASE
PIANO_PATTERN ==
    [ic |-> TRUE,
     re |-> Cat(<<Grp(1, Alt(<<Word("PIANO"), Cat(<<Lit("P"), Opt(Lit("."))>>)>>)),
                  Star(WS),
                  Grp(2, Alt(<<Plus(Cls({"-", "°"} \cup ASCII_UPPER \cup DIGITS)),
                               Lit("T"), Word("TERRA"), Word("RIALZATO"),
                               Word("AMMEZZATO"),
                               Cat(<<Lit("S"), Cls(DIGITS)>>)>>))>>)]

\* a dict that would have the floor in front
ADDRESS_PATTERNS_FloorFirst ==
    <<[key |-> "piano",   pattern |-> PIANO_PATTERN],
      [key |-> "via_num", pattern |-> VIA_NUM_PATTERN],
      [key |-> "scala",   pattern |-> SCALA_PATTERN],
      [key |-> "interno", pattern |-> INTERNO_PATTERN]>>

\* the dict ADDRESS_PATTERNS in its insertion order
ADDRESS_PATTERNS ==
    <<[key |-> "via_num", pattern |-> VIA_NUM_PATTERN],
      [key |-> "scala",   pattern |-> SCALA_PATTERN],
      [key |-> "interno", pattern |-> INTERNO_PATTERN],
      [key |-> "piano",   pattern |-> PIANO_PATTERN]>>

\* ^(VIA|VIALE|PIAZZA|P\.?ZZA|CORSO|STRADA|VICOLO|LARGO|BORGO|LOCALITÀ|LOC\.?|
\*   FRAZIONE|FRAZ\.?|CONTRADA)\s+(.+)  IGNORECASE | UNICODE
STREET_TYPE_REGEX ==
    [ic |-> TRUE,
     re |-> Cat(<<Bol,
                  Grp(1, Alt(<<Word("VIA"), Word("VIALE"), Word("PIAZZA"),
                               Cat(<<Lit("P"), Opt(Lit(".")), Word("ZZA")>>),
                               Word("CORSO"), Word("STRADA"), Word("VICOLO"),
                               Word("LARGO"), Word("BORGO"), Word("LOCALITÀ"),
                               Cat(<<Word("LOC"), Opt(Lit("."))>>),
                               Word("FRAZIONE"),
                               Cat(<<Word("FRAZ"), Opt(Lit("."))>>),
                               Word("CONTRADA")>>)),
                  Plus(WS),
                  Grp(2, Plus(Dot))>>)]

\* \s{2,}|Variazione|Annotazione|Aggiornamento
NAME_END_PATTERN ==
    [ic |-> FALSE,
     re |-> Alt(<<Rep(WS, 2, Inf), Word("Variazione"), Word("Annotazione"),
                  Word("Aggiornamento")>>)]

\* [^A-Za-z0-9]+
NON_ALNUM_PATTERN ==
    [ic |-> FALSE,
     re |-> Plus(NotCls(ASCII_UPPER \cup ASCII_LOWER \cup DIGITS))]

(***************************************************************************)
(* Header normalisation, area parser, address parser                       *)
(***************************************************************************)

_normalize_header(header) ==
    str_lower(strip_chars(re_sub(NON_ALNUM_PATTERN, Str("_"), header), {"_"}))

\* float(text) of a text of digits and dots: the canonical decimal of the
\* value, or ValueError when the text is no number
IsFloatLiteral(t) ==
    /\ Cardinality({i \in 1..Len(t) : t[i] = "."}) <= 1
    /\ \E i \in 1..Len(t) : t[i] \in DIGITS
    /\ \A i \in 1..Len(t) : t[i] \in DIGITS \cup {"."}

Float(t) ==
    LET dot == IF \E i \in 1..Len(t) : t[i] = "."
               THEN CHOOSE i \in 1..Len(t) : t[i] = "." ELSE Len(t) + 1
        int == lstrip(SubSeq(t, 1, dot - 1), {"0"})
        frac == rstrip(SubSeq(t, dot + 1, Len(t)), {"0"})
    IN  <<"<float>">> \o (IF Len(int) = 0 THEN <<"0">> ELSE int)
                      \o <<".">> \o (IF Len(frac) = 0 THEN <<"0">> ELSE frac)

\* the result of a call that can raise: exc names the exception ("" when the
\* call returns), val is the returned value
Return(v) == [exc |-> "", val |-> v]
Raise(e) == [exc |-> e, val |-> None]

_normalize_number(numstr) ==
    LET t == str_replace(str_replace(numstr, Str(","), Str("."), -1), Str(" "), <<>>, -1)
    IN  IF IsFloatLiteral(t) THEN Return(Float(t)) ELSE Raise("ValueError")

_parse_superficie(text) ==
    LET txt == str_replace(text, Str("\n"), Str(" "), -1)
        m1 == re_search(SUPERFICIE_TOTALE, txt)
        m2 == re_search(SUPERFICIE_ESCLUSE, txt)
        totale == IF m1.ok THEN _normalize_number(group(m1, txt, 1)) ELSE Return(None)
        escluse == IF m2.ok THEN _normalize_number(group(m2, txt, 1)) ELSE Return(None)
    IN  IF totale.exc # "" THEN Raise(totale.exc)
        ELSE IF escluse.exc # "" THEN Raise(escluse.exc)
        ELSE Return([superficie_totale |-> totale.val,
                     superficie_escluse |-> escluse.val,
                     superficie_raw |-> txt])

\* step 1 of _parse_address: the loop over ADDRESS_PATTERNS from entry k on;
\* st = [parsed, clean]
RECURSIVE extract_units(_, _)
extract_units(k, st) ==
    IF k > Len(ADDRESS_PATTERNS) THEN st
    ELSE LET key == ADDRESS_PATTERNS[k].key
             m == re_search(ADDRESS_PATTERNS[k].pattern, st.clean)
         IN  IF m.ok
             THEN LET value == strip(group(m, st.clean, IF key = "via_num" THEN 1 ELSE 2))
                  IN  extract_units(k + 1,
                          [parsed |-> [st.parsed EXCEPT ![key] = value],
                           clean |-> str_replace(st.clean, group(m, st.clean, 0), Str(" "), 1)])
             ELSE extract_units(k + 1, st)

\* a parser that would cut the name at a note also when no street type
\* stands in front
_parse_address_CutsAlways(text) ==
    LET raw == strip(str_replace(text, Str("\n"), Str(" "), -1))
        parsed0 == [via_type |-> None, via_name |-> None, via_num |-> None,
                    scala |-> None, interno |-> None, piano |-> None,
                    indirizzo_raw |-> raw]
        st == extract_units(1, [parsed |-> parsed0, clean |-> raw])
        clean == strip(st.clean)
        m == re_match(STREET_TYPE_REGEX, clean)
    IN  IF m.ok
        THEN LET via_type == strip(group(m, clean, 1))
                 rest == strip(re_split_first(NAME_END_PATTERN, strip(group(m, clean, 2))))
             IN  [st.parsed EXCEPT !.via_type = via_type, !.via_name = rest]
        ELSE [st.parsed EXCEPT !.via_name = strip(re_split_first(NAME_END_PATTERN, clean))]

_parse_address(text) ==
    LET raw == strip(str_replace(text, Str("\n"), Str(" "), -1))
        parsed0 == [via_type |-> None, via_name |-> None, via_num |-> None,
                    scala |-> None, interno |-> None, piano |-> None,
                    indirizzo_raw |-> raw]
        st == extract_units(1, [parsed |-> parsed0, clean |-> raw])
        clean == strip(st.clean)
        m == re_match(STREET_TYPE_REGEX, clean)
    IN  IF m.ok
        THEN LET via_type == strip(group(m, clean, 1))
                 rest == strip(re_split_first(NAME_END_PATTERN, strip(group(m, clean, 2))))
             IN  [st.parsed EXCEPT !.via_type = via_type, !.via_name = rest]
        ELSE [st.parsed EXCEPT !.via_name = clean]

(***************************************************************************)
(* Table processing                                                        *)
(***************************************************************************)

\* df.empty: no rows or no columns
df_empty(df) == Len(df) = 0 \/ Len(df[1]) = 0

\* any(k in text for k in keywords)
any_keyword_in(keywords, text) ==
    \E k \in 1..Len(keywords) : str_contains(text, keywords[k])

\* dict.update(other) and d[key] = value
dict_update(d, other) == other @@ d
dict_set(d, key, value) == (key :> value) @@ d

\* a renaming that would know the first column only
fix_header_cell_FirstOnly(idx, col) ==
    LET col_clean == strip(str_replace(col, Str("\n"), Str(" "), -1))
    IN  IF col_clean = <<>> /\ idx = 0 THEN Str("table_num_immobile")
        ELSE IF col_clean = Str("Classe Consistenza") THEN Str("consistenza")
        ELSE col_clean

\* step 6 of _process_table: the name of the header cell col at index idx
\* (idx counts from 0 as enumerate does), before _normalize_header
fix_header_cell(idx, col) ==
    LET col_clean == strip(str_replace(col, Str("\n"), Str(" "), -1))
    IN  IF col_clean = <<>> /\ idx = 0 THEN Str("table_num_immobile")
        ELSE IF col_clean = <<>> /\ idx = 8 THEN Str("classe")
        ELSE IF col_clean = Str("Classe Consistenza") THEN Str("consistenza")
        ELSE col_clean

\* an inner loop that would pass over an empty cell
RECURSIVE build_row_SkipsEmpty(_, _, _, _)
build_row_SkipsEmpty(row, header, c, row_dict) ==
    IF c > Len(header) THEN Return(row_dict)
    ELSE LET col_name == header[c]
             raw_value == strip(row[c])
         IN  IF raw_value = <<>>
             THEN build_row_SkipsEmpty(row, header, c + 1, row_dict)
             ELSE IF str_contains(col_name, Str("indirizzo"))
             THEN build_row_SkipsEmpty(row, header, c + 1,
                                       dict_update(row_dict, _parse_address(raw_value)))
             ELSE IF col_name = Str("superficie_catastale")
             THEN LET parsed == _parse_superficie(raw_value)
                  IN  IF parsed.exc # "" THEN Raise(parsed.exc)
                      ELSE build_row_SkipsEmpty(row, header, c + 1,
                                                dict_update(row_dict, parsed.val))
             ELSE build_row_SkipsEmpty(row, header, c + 1,
                                       dict_set(row_dict, KeyOf(col_name), raw_value))

\* an inner loop that would keep the address cell under the name of its
\* column as well
RECURSIVE build_row_KeepsCell(_, _, _, _)
build_row_KeepsCell(row, header, c, row_dict) ==
    IF c > Len(header) THEN Return(row_dict)
    ELSE LET col_name == header[c]
             raw_value == strip(row[c])
         IN  IF str_contains(col_name, Str("indirizzo"))
             THEN build_row_KeepsCell(row, header, c + 1,
                      dict_set(dict_update(row_dict, _parse_address(raw_value)),
                               KeyOf(col_name), raw_value))
             ELSE IF col_name = Str("superficie_catastale")
             THEN LET parsed == _parse_superficie(raw_value)
                  IN  IF parsed.exc # "" THEN Raise(parsed.exc)
                      ELSE build_row_KeepsCell(row, header, c + 1,
                                               dict_update(row_dict, parsed.val))
             ELSE build_row_KeepsCell(row, header, c + 1,
                                      dict_set(row_dict, KeyOf(col_name), raw_value))

\* step 7 of _process_table, the inner loop: the cells of row from column c
\* on are put into row_dict; a ValueError of the area parser ends the loop
RECURSIVE build_row(_, _, _, _)
build_row(row, header, c, row_dict) ==
    IF c > Len(header) THEN Return(row_dict)
    ELSE LET col_name == header[c]
             raw_value == strip(row[c])
         IN  IF str_contains(col_name, Str("indirizzo"))
             THEN build_row(row, header, c + 1,
                            dict_update(row_dict, _parse_address(raw_value)))
             ELSE IF col_name = Str("superficie_catastale")
             THEN LET parsed == _parse_superficie(raw_value)
                  IN  IF parsed.exc # "" THEN Raise(parsed.exc)
                      ELSE build_row(row, header, c + 1, dict_update(row_dict, parsed.val))
             ELSE build_row(row, header, c + 1,
                            dict_set(row_dict, KeyOf(col_name), raw_value))

\* step 7 of _process_table, the outer loop over the data rows i..len(df)
\* (i counts from 1 here)
RECURSIVE build_rows(_, _, _, _)
build_rows(df, header, i, rows) ==
    IF i > Len(df) THEN Return(rows)
    ELSE LET r == build_row(df[i], header, 1, <<>>)
         IN  IF r.exc # "" THEN Raise(r.exc)
             ELSE build_rows(df, header, i + 1, Append(rows, r.val))

\* what _process_table returns: None, or the dict {"immobili": rows}
ReturnNone == [exc |-> "", none |-> TRUE, immobili |-> <<>>]
ReturnImmobili(rows) == [exc |-> "", none |-> FALSE, immobili |-> rows]
RaiseInTable(e) == [exc |-> e, none |-> FALSE, immobili |-> <<>>]

\* the row index of the header (counted from 0): 1 under a grouping banner
header_row_of(df) ==
    IF any_keyword_in(GROUPED_HEADER_KEYWORDS, str_upper(str_join(Str(" "), df[1])))
    THEN 1 ELSE 0

\* steps 2 and 3 of _process_table: the cells of the header row, newlines
\* as blanks, stripped
header_of(df) ==
    tuple([c \in 1..Len(df[header_row_of(df) + 1]) |->
        strip(str_replace(df[header_row_of(df) + 1][c], Str("\n"), Str(" "), -1))])

\* a comparison that would take the header as it is spelled
is_intestazione_CaseSensitive(header) ==
    any_keyword_in(INTABULAZIONE_KEYWORDS, str_join(Str(" "), header))

\* step 4 of _process_table: the header of a table of owners
is_intestazione(header) ==
    any_keyword_in(INTABULAZIONE_KEYWORDS, str_upper(str_join(Str(" "), header)))

\* a gate that would let every table with a header through
is_real_estate_AnyHeader(header) == Len(header) > 0

\* step 5 of _process_table: the header of a table of real estate
is_real_estate(header) == \E c \in 1..Len(header) : header[c] \in REAL_ESTATE_COLUMNS

\* step 6 of _process_table: the column names of the records
normalized_header_of(df) ==
    tuple([c \in 1..Len(header_of(df)) |->
        _normalize_header(fix_header_cell(c - 1, header_of(df)[c]))])

\* steps 3 and 6 of _process_table for one cell of the header row: the column
\* name of the cell at index idx (counted from 0)
header_name(idx, cell) ==
    _normalize_header(fix_header_cell(idx, strip(str_replace(cell, Str("\n"), Str(" "), -1))))

_process_table(df) ==
    IF df_empty(df) THEN ReturnNone
    ELSE
    LET header_row == header_row_of(df)
        data_start_row == header_row + 1
    IN
    IF header_row + 1 > Len(df) THEN RaiseInTable("IndexError")
    ELSE IF is_intestazione(header_of(df)) THEN ReturnNone
    ELSE IF ~is_real_estate(header_of(df)) THEN ReturnNone
    ELSE
    LET rows == build_rows(df, normalized_header_of(df), data_start_row + 1, <<>>)
    IN  IF rows.exc # "" THEN RaiseInTable(rows.exc) ELSE ReturnImmobili(rows.val)

(***************************************************************************)
(* The document.  The file at pdf_path is NoDocument (fitz.open raises) or *)
(* a document with pages; a page has its text blocks and the tables        *)
(* Camelot finds on it, or Camelot fails on it.                            *)
(***************************************************************************)

NoDocument == [openable |-> FALSE, pages |-> <<>>]
Document(pages) == [openable |-> TRUE, pages |-> pages]

\* page.get_text("blocks"): the texts of the blocks
get_text_blocks(page) == page.blocks

\* page.get_text("text"): the text of the page, block after block
RECURSIVE concat(_)
concat(xs) == IF Len(xs) = 0 THEN <<>> ELSE xs[1] \o concat(Tail(xs))
get_text(page) == concat(page.blocks)

\* the first line of lines, from line j on, that NAME_CF matches
RECURSIVE name_cf_in_lines(_, _)
name_cf_in_lines(lines, j) ==
    IF j > Len(lines) THEN NoMatch
    ELSE LET line == strip(lines[j])
             m == re_match(NAME_CF, line)
         IN  IF m.ok
             THEN [ok |-> TRUE,
                   val |-> [locatore_surname |-> group(m, line, 1),
                            locatore_name |-> group(m, line, 2),
                            cf |-> group(m, line, 3)]]
             ELSE name_cf_in_lines(lines, j + 1)

RECURSIVE name_cf_in_blocks(_, _)
name_cf_in_blocks(blocks, b) ==
    IF b > Len(blocks)
    THEN [locatore_surname |-> None, locatore_name |-> None, cf |-> None]
    ELSE LET r == name_cf_in_lines(splitlines(blocks[b]), 1)
         IN  IF r.ok THEN r.val ELSE name_cf_in_blocks(blocks, b + 1)

\* an extraction that would go on to the second page when the first names
\* no owner
_extract_name_cf_NextPage(doc) ==
    IF Len(doc.pages) = 0 THEN Raise("IndexError")
    ELSE IF Len(doc.pages) >= 2
            /\ name_cf_in_blocks(get_text_blocks(doc.pages[1]), 1).cf = None
    THEN Return(name_cf_in_blocks(get_text_blocks(doc.pages[2]), 1))
    ELSE Return(name_cf_in_blocks(get_text_blocks(doc.pages[1]), 1))

\* doc[0] raises IndexError on a document without pages
_extract_name_cf(doc) ==
    IF Len(doc.pages) = 0 THEN Raise("IndexError")
    ELSE Return(name_cf_in_blocks(get_text_blocks(doc.pages[1]), 1))

RECURSIVE comune_in_lines(_, _)
comune_in_lines(lines, j) ==
    IF j > Len(lines) THEN <<None, None>>
    ELSE LET line == strip(lines[j])
             m == re_search(COMUNE_TABLE, line)
         IN  IF m.ok THEN <<group(m, line, 1), group(m, line, 2)>>
             ELSE comune_in_lines(lines, j + 1)

_extract_comune_for_page(page) == comune_in_lines(splitlines(get_text(page)), 1)

\* immobile.update({...}) of parse
\* an update that would keep what the table has under the keys of the context
enrich_KeepsColumns(immobile, name, comune_pair) ==
    dict_update([locatore_surname |-> name.locatore_surname,
                 locatore_name |-> name.locatore_name,
                 locatore_codice_fiscale |-> name.cf,
                 immobile_comune |-> comune_pair[1],
                 immobile_comune_code |-> comune_pair[2]],
                immobile)

enrich(immobile, name, comune_pair) ==
    dict_update(immobile,
                [locatore_surname |-> name.locatore_surname,
                 locatore_name |-> name.locatore_name,
                 locatore_codice_fiscale |-> name.cf,
                 immobile_comune |-> comune_pair[1],
                 immobile_comune_code |-> comune_pair[2]])

(***************************************************************************)
(* The documents the model parses: every sequence of at most MaxPages      *)
(* pages of PageLib, and the file that cannot be opened.                   *)
(***************************************************************************)

MaxPages == 2
MaxRuns == 2

\* banner, header, two units; the cells carry newlines and outer blanks
TableUnits ==
    <<<<Str(""), Str("DATI IDENTIFICATIVI"), Str(""), Str("DATI DI CLASSAMENTO"),
        Str("ALTRE INFORMAZIONI")>>,
      <<Str(""), Str("Foglio"), Str("Categoria"), Str("Superficie\nCatastale"),
        Str("Indirizzo\nDati derivanti da")>>,
      <<Str("1"), Str("12"), Str("A/2"),
        Str("Totale: 85 m²\nTotale escluse aree\nscoperte**: 80,5 m²"),
        Str("VIA ROMA n. 10\nPiano 1")>>,
      <<Str("2"), Str("12"), Str("C/6"), Str("Totale: 15 m²"),
        Str(" VIALE EUROPA SNC")>>>>

\* header in row 0, one unit
TablePlain ==
    <<<<Str("Foglio"), Str("Numero"), Str("Sub"), Str("Indirizzo")>>,
      <<Str("7"), Str("101"), Str("3"), Str("PIAZZA GARIBALDI n. 2")>>>>

\* the table of the owners
TableOwners ==
    <<<<Str("N."), Str("DATI ANAGRAFICI"), Str("CODICE FISCALE"),
        Str("DIRITTI E ONERI REALI")>>,
      <<Str("1"), Str("ROSSI MARIO"), Str("RSSMRA80A01H501U"), Str("Proprieta' 1/1")>>>>

\* a table of owners whose header also has a cadastral column
TableOwnersFoglio ==
    <<<<Str("Dati\nanagrafici"), Str("Foglio")>>,
      <<Str("ROSSI MARIO"), Str("12")>>>>

\* a table of owners under a grouping banner
TableGroupedOwners ==
    <<<<Str("DATI IDENTIFICATIVI"), Str("")>>,
      <<Str("Diritti e oneri reali"), Str("Sub")>>,
      <<Str("Proprieta'"), Str("1")>>>>

\* a table that is only a grouping banner
TableBannerOnly ==
    <<<<Str("Dati identificativi"), Str("Altre informazioni")>>>>

\* an area with a thousands separator
TableBadArea ==
    <<<<Str("Foglio"), Str("Superficie Catastale")>>,
      <<Str("3"), Str("Totale: 1.234,5 m²")>>>>

\* a layout table
TableDecor ==
    <<<<Str("Data"), Str("Ufficio")>>,
      <<Str("01/02/2024"), Str("ROMA")>>>>

TableEmpty == <<>>

\* a table of real estate that ends with its header
TableHeaderOnly ==
    <<<<Str("DATI IDENTIFICATIVI"), Str("")>>,
      <<Str("Foglio"), Str("Numero")>>>>

\* a table of real estate with two columns named as the context fields
TableContext ==
    <<<<Str("Foglio"), Str("Immobile Comune"), Str("Locatore\nName")>>,
      <<Str("5"), Str("NAPOLI"), Str("LUIGI")>>>>

BlocksOwnerRoma ==
    <<Str("Visura per soggetto\n  ROSSI MARIO (CF: RSSMRA80A01H501U)\nBIANCHI LUCA (CF: BNCLCU70A01F205Z)\n"),
      Str("VERDI ANNA (CF: VRDNNA75C41F205X)\nImmobili siti nel Comune di ROMA (Codice H501)\n")>>

BlocksOwnerMilano ==
    <<Str("Immobili siti nel Comune di MILANO (Codice F205)\n"),
      Str("NERI PAOLA (CF: NREPLA80A41F205K)\nimmobili siti nel comune di Sesto San Giovanni (Codice I690)\n")>>

BlocksPlain == <<Str("Segue\n"), Str("Unità immobiliari n. 2\n")>>

Page(blocks, camelot_ok, tables) ==
    [blocks |-> blocks, camelot_ok |-> camelot_ok, tables |-> tables]

TableLib ==
    {TableUnits, TablePlain, TableOwners, TableOwnersFoglio, TableGroupedOwners,
     TableBannerOnly, TableBadArea, TableDecor, TableEmpty, TableHeaderOnly,
     TableContext}

PageLib ==
    {Page(BlocksOwnerRoma, TRUE, <<TableOwners, TableUnits>>),
     Page(BlocksOwnerMilano, TRUE, <<TablePlain>>),
     Page(BlocksPlain, TRUE, <<TableDecor, TablePlain, TableEmpty>>),
     Page(BlocksOwnerMilano, FALSE, <<TableUnits>>),
     Page(BlocksPlain, TRUE, <<TableOwnersFoglio, TableGroupedOwners, TableHeaderOnly>>),
     Page(BlocksOwnerRoma, TRUE, <<TablePlain, TableBannerOnly>>),
     Page(BlocksPlain, TRUE, <<TableBadArea>>),
     Page(BlocksOwnerMilano, TRUE, <<TableUnits, TableContext>>)}

RECURSIVE PageSeqs(_)
PageSeqs(n) ==
    IF n = 0 THEN {<<>>}
    ELSE LET shorter == PageSeqs(n - 1)
         IN  shorter \cup {Append(ps, pg) : ps \in shorter, pg \in PageLib}

Files == {NoDocument} \cup {Document(ps) : ps \in PageSeqs(MaxPages)}

(***************************************************************************)
(* The addresses the address parser is applied to: the addresses of the    *)
(* tests and every text of at most MaxAddrLen characters of AddrAlphabet.  *)
(***************************************************************************)

MaxAddrLen == 3

AddrAlphabet == {"V", "I", "A", " ", "1", "n", "\n"}

RECURSIVE Texts(_)
Texts(n) ==
    IF n = 0 THEN {<<>>}
    ELSE LET shorter == Texts(n - 1)
         IN  shorter \cup {Append(t, c) : t \in shorter, c \in AddrAlphabet}

TestAddresses ==
    {Str("VIALE DELLA RIVIERA n. 285 Scala U Interno 1 Piano 1"),
     Str("VIA XX SETTEMBRE n. 15"),
     Str("PIAZZA GARIBALDI n. 2"),
     Str("VIA ROMA 10"),
     Str("VIA ROMA 10A"),
     Str("VIA DEI MILLE SNC"),
     Str("PIAZZA CAVOUR n. SNC"),
     Str("VIA MANZONI n. 5 Scala B"),
     Str("VIA MANZONI n. 5 Interno 7"),
     Str("VIA VERDI n. 3 Piano Terra"),
     Str("VIA VERDI n. 3 P. 1"),
     Str("LOCALITA COLLE ALTO"),
     Str("FRAZ. SAN PIETRO n. 12"),
     Str("STRADA STATALE 16 250"),
     Str("BORGO ANTICO")}

\* addresses built from their parts: <type> <name> n. <number> and the
\* markers of staircase, unit and floor that follow, each with its value or
\* absent (None)
StreetTypes == {Str("VIA"), Str("VIALE")}
StreetNames == {Str("ROMA"), Str("DELLA RIVIERA"), Str("ROSSI SNC")}
CivicNumbers == {Str("285"), Str("5")}
ScalaValues == {None, Str("U")}
InternoValues == {None, Str("1")}
FloorMarkers == {Str("Piano"), Str("P.")}
PianoValues == {None, Str("1")}

Marker(label, value) ==
    IF value = None THEN <<>> ELSE Str(" ") \o label \o Str(" ") \o value

UnitAddress(type, name, num, sc, int, floor, p) ==
    type \o Str(" ") \o name \o Str(" n. ") \o num
         \o Marker(Str("Scala"), sc) \o Marker(Str("Interno"), int) \o Marker(floor, p)

UnitAddresses ==
    {UnitAddress(type, name, num, sc, int, floor, p) :
        type \in StreetTypes, name \in StreetNames, num \in CivicNumbers,
        sc \in ScalaValues, int \in InternoValues, floor \in FloorMarkers,
        p \in PianoValues}

\* addresses without civic number (SNC), in either case, alone or after "n."
SncAddresses ==
    {Str("VIA DEI MILLE SNC"), Str("VIA DEI MILLE snc"), Str("VIA ROMA n. SNC"),
     Str("CORSO ITALIA n. snc")}

\* PIAZZA <name>, with or without a civic number
PiazzaNames == {Str("GARIBALDI"), Str("CAVOUR"), Str("ROMA")}
PiazzaCivics == {<<>>, Str(" n. 2"), Str(" 10")}
PiazzaAddresses == {Str("PIAZZA ") \o name \o civic : name \in PiazzaNames, civic \in PiazzaCivics}

\* VIA VERDI n. 3 <floor marker> <floor name>
FloorNames == {Str("Terra"), Str("terra"), Str("TERRA"), Str("Rialzato"), Str("AMMEZZATO")}
FloorAddresses ==
    {Str("VIA VERDI n. 3 ") \o floor \o Str(" ") \o name :
        floor \in FloorMarkers, name \in FloorNames}

\* <type> <word> <number> <number>, without "n."
RoadTypes == {Str("STRADA"), Str("VIA")}
RoadWords == {Str("STATALE"), Str("ROMA")}
RoadNumbers == {Str("16"), Str("2")}
LastNumbers == {Str("250"), Str("7")}
RoadAddress(type, word, number, last) ==
    type \o Str(" ") \o word \o Str(" ") \o number \o Str(" ") \o last
RoadAddresses ==
    {RoadAddress(type, word, number, last) :
        type \in RoadTypes, word \in RoadWords, number \in RoadNumbers, last \in LastNumbers}

\* street names with the letters SC or INT inside a word, no marker
PlainAddresses ==
    {Str("VIA SCARLATTI n. 5"), Str("VIA SAN QUINTINO 3"), Str("VIA ROMA n. 10"),
     Str("VIA VERDI 3")}

\* LOCALITA without the accent, and the abbreviated types with a dot
LocalitaNames == {Str("COLLE ALTO"), Str("MONTE")}
LocalitaAddresses == {Str("LOCALITA ") \o name : name \in LocalitaNames}
AbbreviatedTypes == {Str("FRAZ"), Str("LOC")}
AbbreviatedNames == {Str("SAN PIETRO"), Str("COLLE")}
AbbreviatedAddress(type, name) == type \o Str(". ") \o name \o Str(" n. 12")
AbbreviatedAddresses ==
    {AbbreviatedAddress(type, name) : type \in AbbreviatedTypes, name \in AbbreviatedNames}

\* addresses with a note of the register after the name, with runs of
\* blanks, with and without a street type
AnnotatedAddresses ==
    {Str("VIA ROMA n. 10 Variazione del 01/01/2020"),
     Str("VIA ROMA  Annotazione"),
     Str("VIA ROMA VARIAZIONE"),
     Str("VIA Variazione"),
     Str("VIA 5 MAGGIO"),
     Str("Via Verdi 3 Piano 1"),
     Str("VIA DANTE Scala B Aggiornamento"),
     Str("VIA\nDANTE"),
     Str("località monte"),
     Str("LOCALITÀ MONTE"),
     Str("P.ZZA DUOMO"),
     Str("VIALE EUROPA"),
     Str("VIAX ROMA"),
     Str("ROMA Variazione 3"),
     Str("BORGATA ROSSI Aggiornamento"),
     Str("BORGATA  ROSSI"),
     Str("BORGATA 5 ROSSI")}

\* addresses without civic number, with one marker of staircase, unit or
\* floor and its numeric value
UnitLabels == {Str("Scala"), Str("Sc."), Str("Interno"), Str("Int."), Str("Piano"), Str("P.")}
UnitNumbers == {Str("7"), Str("12")}
MarkerOnlyAddress(label, number) == Str("VIA ROMA ") \o label \o Str(" ") \o number
MarkerOnlyAddresses ==
    {MarkerOnlyAddress(label, number) : label \in UnitLabels, number \in UnitNumbers}

AddrInputs ==
    TestAddresses \cup Texts(MaxAddrLen) \cup UnitAddresses \cup SncAddresses
        \cup PiazzaAddresses \cup FloorAddresses \cup RoadAddresses \cup PlainAddresses
        \cup LocalitaAddresses \cup AbbreviatedAddresses \cup AnnotatedAddresses
        \cup MarkerOnlyAddresses

(***************************************************************************)
(* The header cells a column name is computed of: the header cells of the  *)
(* tables, every text of at most MaxHeaderLen characters of                *)
(* HeaderAlphabet, at the column indices of HeaderIndices.                 *)
(***************************************************************************)

MaxHeaderLen == 3

HeaderAlphabet == {"A", "b", "1", " ", "_", "."}

RECURSIVE HeaderTexts(_)
HeaderTexts(n) ==
    IF n = 0 THEN {<<>>}
    ELSE LET shorter == HeaderTexts(n - 1)
         IN  shorter \cup {Append(t, c) : t \in shorter, c \in HeaderAlphabet}

HeaderCells ==
    {Str("Classe Consistenza"), Str("Classe\nConsistenza"), Str(" Classe Consistenza "),
     Str("Classe  Consistenza"), Str("Zona Cens."), Str("Dati Ulteriori"),
     Str("Superficie\nCatastale"), Str("Indirizzo\nDati derivanti da"),
     Str("Qualità Classe"), Str("Superficie(m²)"), Str("Foglio"), Str("__Sub__"), Str(" \n")}

HeaderIndices == {0, 1, 8}

HeaderInputs ==
    {<<idx, cell>> : idx \in HeaderIndices, cell \in HeaderCells \cup HeaderTexts(MaxHeaderLen)}

(***************************************************************************)
(* The area cells the area parser is applied to: a part with the total, a  *)
(* part with the total without uncovered areas, either absent, in both     *)
(* orders, and texts without any.                                          *)
(***************************************************************************)

TotaleParts ==
    {<<>>, Str("Totale: 85 m²"), Str("Totale:85"), Str("Totale: 80,5 m²"),
     Str("Totale: 1.234,5 m²"), Str("Totale: m²"), Str("totale: 85 m²"),
     Str("Totale 85 m²")}

EscluseParts ==
    {<<>>, Str("Totale escluse aree scoperte**: 80,5 m²"),
     Str("Totale escluse aree\nscoperte**: 78 m²"),
     Str("Totale escluse aree scoperte: 80 m²"),
     Str("Totale escluse aree scoperte**: m²")}

AreaSeparators == {Str(" "), Str("\n")}

AreaCells ==
    {totale \o sep \o escluse :
        totale \in TotaleParts, escluse \in EscluseParts, sep \in AreaSeparators}
    \cup {escluse \o sep \o totale :
        totale \in TotaleParts, escluse \in EscluseParts, sep \in AreaSeparators}
    \cup {<<>>, Str("85 m²"), Str("n/a")}

(***************************************************************************)
(* The grids _process_table is applied to on its own: the tables of the    *)
(* documents, and every grid of a header of two cells of GridHeaderCells   *)
(* over one or two data rows of the cells of GridCells.                    *)
(***************************************************************************)

GridHeaderCells ==
    {Str("Sub"), Str("sub."), Str("Indirizzo"),
     Str("Superficie\nCatastale"), Str("Piano"), Str("")}

GridCells ==
    {Str(""), Str(" 3 "), Str("VIA ROMA n. 1\nPiano 2"), Str("Totale: 85 m²"),
     Str("Totale: 1.234,5 m²")}

GridHeaders == {<<a, b>> : a \in GridHeaderCells, b \in GridHeaderCells}

GridRows == {<<a, b>> : a \in GridCells, b \in GridCells}

\* a second data row, when there is one
GridSecondRows == {<<Str(""), Str("")>>}

Grids ==
    TableLib
        \cup {<<header, row>> : header \in GridHeaders, row \in GridRows}
        \cup {<<header, row, second>> :
                  header \in GridHeaders, row \in GridRows, second \in GridSecondRows}

(***************************************************************************)
(* The parsers tabulated over the inputs of the model: the value of each   *)
(* call is computed once per input.                                        *)
(***************************************************************************)
NameCfOf == [doc \in Files |-> _extract_name_cf(doc)]

ComuneOf == [page \in PageLib |-> _extract_comune_for_page(page)]

TableOf == [df \in TableLib |-> _process_table(df)]

AddressOf == [text \in AddrInputs |-> _parse_address(text)]

SuperficieOf == [text \in AreaCells |-> _parse_superficie(text)]

GridOf == [df \in Grids |-> _process_table(df)]

HeaderNameOf == [input \in HeaderInputs |-> header_name(input[1], input[2])]

(***************************************************************************)
(* parse as a state machine.  pc is the position in parse; a caller calls  *)
(* parse on the same file up to MaxRuns times and keeps what each call     *)
(* gave it in observed.                                                    *)
(***************************************************************************)

VARIABLES
    file,           \* what is stored at pdf_path
    pc,             \* "idle", "open", "name_cf", "page", "table", "finally", "done"
    run,            \* the number of calls of parse so far
    handle,         \* the document handle of this call: "none", "open", "closed"
    closes,         \* the number of doc.close() calls of this call
    name_data,      \* the local name_data
    page_idx,       \* the local page_idx
    comune,         \* the locals comune_name, comune_code
    tables,         \* the local tables
    table_idx,      \* the number of tables of the page processed so far
    all_immobili,   \* the local all_immobili
    rec_src,        \* for every record of all_immobili, the page, table and grid row it was built from
    pending_exc,    \* the exception on its way to the caller, "" when none
    observed,       \* what the caller got from each finished call
    calls,          \* the calls this parse made so far: the owner extraction, Camelot on a page
    call            \* a direct call of one of the pure parsers: its argument and result

pvars == <<file, pc, run, handle, closes, name_data, page_idx, comune, tables,
           table_idx, all_immobili, rec_src, pending_exc, observed, calls>>
vars == <<file, pc, run, handle, closes, name_data, page_idx, comune, tables,
          table_idx, all_immobili, rec_src, pending_exc, observed, calls, call>>

NoNameData == [locatore_surname |-> None, locatore_name |-> None, cf |-> None]
NoCall == [fn |-> "", arg |-> <<>>, ret |-> <<>>, done |-> FALSE]

\* what the caller of parse observes
Returned(value) == [raised |-> FALSE, exc |-> "", value |-> value]
Raised(e) == [raised |-> TRUE, exc |-> e, value |-> <<>>]

\* except Exception of fitz.open: logger.exception(...); return []
OpenFailureOutcome == Returned(<<>>)

Idle(f) ==
    /\ file = f
    /\ pc = "idle"
    /\ run = 0
    /\ handle = "none"
    /\ closes = 0
    /\ name_data = NoNameData
    /\ page_idx = 0
    /\ comune = <<None, None>>
    /\ tables = <<>>
    /\ table_idx = 0
    /\ all_immobili = <<>>
    /\ rec_src = <<>>
    /\ pending_exc = ""
    /\ observed = <<>>
    /\ calls = <<>>

Init == (\E f \in Files : Idle(f)) /\ call = NoCall

\* parser.parse(pdf_path): a new call
Call ==
    /\ pc \in {"idle", "done"}
    /\ run < MaxRuns
    /\ run' = run + 1
    /\ pc' = "open"
    /\ handle' = "none"
    /\ closes' = 0
    /\ pending_exc' = ""
    /\ UNCHANGED <<file, name_data, page_idx, comune, tables, table_idx,
                   all_immobili, rec_src, observed, call>>
    /\ calls' = <<>>

\* fitz.open raises: the exception is logged and [] returned
OpenFails ==
    /\ pc = "open"
    /\ ~file.openable
    /\ observed' = Append(observed, OpenFailureOutcome)
    /\ pc' = "done"
    /\ UNCHANGED <<file, run, handle, closes, name_data, page_idx, comune, tables,
                   table_idx, all_immobili, rec_src, pending_exc, call, calls>>

\* a parse that would keep the list of the previous call
OpenSucceeds_KeepsList ==
    /\ pc = "open"
    /\ file.openable
    /\ handle' = "open"
    /\ pc' = "name_cf"
    /\ UNCHANGED <<file, run, closes, name_data, page_idx, comune, tables,
                   table_idx, all_immobili, rec_src, pending_exc, observed, call, calls>>

\* fitz.open returns the document; all_immobili = []
OpenSucceeds ==
    /\ pc = "open"
    /\ file.openable
    /\ handle' = "open"
    /\ all_immobili' = <<>>
    /\ rec_src' = <<>>
    /\ pc' = "name_cf"
    /\ UNCHANGED <<file, run, closes, name_data, page_idx, comune, tables,
                   table_idx, pending_exc, observed, call, calls>>

\* name_data = self._extract_name_cf(doc), name_cf the tabulated function;
\* then the loop over the pages starts
NameCfStep(name_cf) ==
    /\ pc = "name_cf"
    /\ IF name_cf[file].exc # ""
       THEN /\ pending_exc' = name_cf[file].exc
            /\ pc' = "finally"
            /\ UNCHANGED <<name_data, page_idx>>
       ELSE /\ name_data' = name_cf[file].val
            /\ page_idx' = 0
            /\ pc' = "page"
            /\ UNCHANGED pending_exc
    /\ UNCHANGED <<file, run, handle, closes, comune, tables, table_idx,
                   all_immobili, rec_src, observed, call>>
    /\ calls' = Append(calls, [op |-> "_extract_name_cf", page |-> 0])

ExtractNameCf == NameCfStep(NameCfOf)

\* a parse that would keep the comune of the page before when the page
\* names none
ReadPageStep_CarryOver(comune_of) ==
    /\ pc = "page"
    /\ page_idx < Len(file.pages)
    /\ file.pages[page_idx + 1].camelot_ok
    /\ comune' = IF comune_of[file.pages[page_idx + 1]] = <<None, None>> /\ page_idx > 0
                 THEN comune
                 ELSE comune_of[file.pages[page_idx + 1]]
    /\ tables' = file.pages[page_idx + 1].tables
    /\ table_idx' = 0
    /\ pc' = "table"
    /\ UNCHANGED <<file, run, handle, closes, name_data, page_idx, all_immobili,
                   rec_src, pending_exc, observed, call>>
    /\ calls' = Append(calls, [op |-> "read_pdf", page |-> page_idx + 1])

\* one page: its comune (comune_of tabulates _extract_comune_for_page),
\* then Camelot reads its tables
ReadPageStep(comune_of) ==
    /\ pc = "page"
    /\ page_idx < Len(file.pages)
    /\ file.pages[page_idx + 1].camelot_ok
    /\ comune' = comune_of[file.pages[page_idx + 1]]
    /\ tables' = file.pages[page_idx + 1].tables
    /\ table_idx' = 0
    /\ pc' = "table"
    /\ UNCHANGED <<file, run, handle, closes, name_data, page_idx, all_immobili,
                   rec_src, pending_exc, observed, call>>
    /\ calls' = Append(calls, [op |-> "read_pdf", page |-> page_idx + 1])

ReadPage == ReadPageStep(ComuneOf)

\* one page on which Camelot raises: logged, continue with the next page
SkipPageStep(comune_of) ==
    /\ pc = "page"
    /\ page_idx < Len(file.pages)
    /\ ~file.pages[page_idx + 1].camelot_ok
    /\ comune' = comune_of[file.pages[page_idx + 1]]
    /\ page_idx' = page_idx + 1
    /\ UNCHANGED <<file, pc, run, handle, closes, name_data, tables, table_idx,
                   all_immobili, rec_src, pending_exc, observed, call>>
    /\ calls' = Append(calls, [op |-> "read_pdf", page |-> page_idx + 1])

SkipPage == SkipPageStep(ComuneOf)

\* the records of one table, enriched, in row order; first is the grid row
\* of the first record
enriched(rows, name, comune_pair) ==
    tuple([i \in 1..Len(rows) |-> enrich(rows[i], name, comune_pair)])

sources(n, page, table, first) ==
    tuple([i \in 1..n |-> [page |-> page, table |-> table, row |-> first + i - 1]])

\* a loop that would put the records of a table before those collected so
\* far
TableStep_NewestFirst(process_table) ==
    /\ pc = "table"
    /\ table_idx < Len(tables)
    /\ IF process_table[tables[table_idx + 1]].exc # ""
       THEN /\ pending_exc' = process_table[tables[table_idx + 1]].exc
            /\ pc' = "finally"
            /\ UNCHANGED <<table_idx, all_immobili, rec_src>>
       ELSE /\ table_idx' = table_idx + 1
            /\ all_immobili' =
                   enriched(process_table[tables[table_idx + 1]].immobili,
                            name_data, comune) \o all_immobili
            /\ rec_src' =
                   sources(Len(process_table[tables[table_idx + 1]].immobili),
                           page_idx + 1, table_idx + 1,
                           header_row_of(tables[table_idx + 1]) + 2) \o rec_src
            /\ UNCHANGED <<pc, pending_exc>>
    /\ UNCHANGED <<file, run, handle, closes, name_data, page_idx, comune, tables,
                   observed, call, calls>>

\* one table of the page: process_table tabulates _process_table; then the
\* loop over the immobili of the table
TableStep(process_table) ==
    /\ pc = "table"
    /\ table_idx < Len(tables)
    /\ IF process_table[tables[table_idx + 1]].exc # ""
       THEN /\ pending_exc' = process_table[tables[table_idx + 1]].exc
            /\ pc' = "finally"
            /\ UNCHANGED <<table_idx, all_immobili, rec_src>>
       ELSE /\ table_idx' = table_idx + 1
            /\ all_immobili' =
                   all_immobili \o enriched(process_table[tables[table_idx + 1]].immobili,
                                           name_data, comune)
            /\ rec_src' =
                   rec_src \o sources(Len(process_table[tables[table_idx + 1]].immobili),
                                      page_idx + 1, table_idx + 1,
                                      header_row_of(tables[table_idx + 1]) + 2)
            /\ UNCHANGED <<pc, pending_exc>>
    /\ UNCHANGED <<file, run, handle, closes, name_data, page_idx, comune, tables,
                   observed, call, calls>>

ProcessTable == TableStep(TableOf)

\* the tables of the page are done: the next page
EndTables ==
    /\ pc = "table"
    /\ table_idx = Len(tables)
    /\ page_idx' = page_idx + 1
    /\ pc' = "page"
    /\ UNCHANGED <<file, run, handle, closes, name_data, comune, tables, table_idx,
                   all_immobili, rec_src, pending_exc, observed, call, calls>>

\* the pages are done: return all_immobili
ReturnAll ==
    /\ pc = "page"
    /\ page_idx = Len(file.pages)
    /\ pc' = "finally"
    /\ UNCHANGED <<file, run, handle, closes, name_data, page_idx, comune, tables,
                   table_idx, all_immobili, rec_src, pending_exc, observed, call, calls>>

\* a parse that would close the document after the loop, not in a finally
Finally_CloseOnlyOnReturn ==
    /\ pc = "finally"
    /\ handle' = IF pending_exc # "" THEN handle ELSE "closed"
    /\ closes' = IF pending_exc # "" THEN closes ELSE closes + 1
    /\ observed' = Append(observed, IF pending_exc # "" THEN Raised(pending_exc)
                                    ELSE Returned(all_immobili))
    /\ pc' = "done"
    /\ UNCHANGED <<file, run, name_data, page_idx, comune, tables, table_idx,
                   all_immobili, rec_src, pending_exc, call, calls>>

\* finally: doc.close(); then the caller gets the list or the exception
Finally ==
    /\ pc = "finally"
    /\ handle' = "closed"
    /\ closes' = closes + 1
    /\ observed' = Append(observed, IF pending_exc # "" THEN Raised(pending_exc)
                                    ELSE Returned(all_immobili))
    /\ pc' = "done"
    /\ UNCHANGED <<file, run, name_data, page_idx, comune, tables, table_idx,
                   all_immobili, rec_src, pending_exc, call, calls>>

Next ==
    \/ Call
    \/ OpenFails
    \/ OpenSucceeds
    \/ ExtractNameCf
    \/ ReadPage
    \/ SkipPage
    \/ ProcessTable
    \/ EndTables
    \/ ReturnAll
    \/ Finally

Spec == Init /\ [][Next]_vars

(***************************************************************************)
(* The address parser called on its own                                    *)
(***************************************************************************)

InitAddr ==
    /\ Idle(NoDocument)
    /\ \E a \in AddrInputs :
           call = [fn |-> "_parse_address", arg |-> a, ret |-> <<>>, done |-> FALSE]

\* a call fn(call.arg), f the tabulated function
Apply(fn, f) ==
    /\ call.fn = fn
    /\ ~call.done
    /\ call' = [call EXCEPT !.ret = f[call.arg], !.done = TRUE]
    /\ UNCHANGED pvars

ParseAddress == Apply("_parse_address", AddressOf)

NextAddr == ParseAddress

SpecAddr == InitAddr /\ [][NextAddr]_vars

(***************************************************************************)
(* The area parser called on its own                                       *)
(***************************************************************************)

InitArea ==
    /\ Idle(NoDocument)
    /\ \E text \in AreaCells :
           call = [fn |-> "_parse_superficie", arg |-> text, ret |-> <<>>, done |-> FALSE]

ParseSuperficie == Apply("_parse_superficie", SuperficieOf)

NextArea == ParseSuperficie

SpecArea == InitArea /\ [][NextArea]_vars

(***************************************************************************)
(* _process_table called on its own                                        *)
(***************************************************************************)

InitTable ==
    /\ Idle(NoDocument)
    /\ \E df \in Grids :
           call = [fn |-> "_process_table", arg |-> df, ret |-> <<>>, done |-> FALSE]

ProcessGrid == Apply("_process_table", GridOf)

NextTable == ProcessGrid

SpecTable == InitTable /\ [][NextTable]_vars

(***************************************************************************)
(* The column name of one header cell computed on its own                  *)
(***************************************************************************)

InitHeader ==
    /\ Idle(NoDocument)
    /\ \E input \in HeaderInputs :
           call = [fn |-> "header_name", arg |-> input, ret |-> <<>>, done |-> FALSE]

NameHeader == Apply("header_name", HeaderNameOf)

NextHeader == NameHeader

SpecHeader == InitHeader /\ [][NextHeader]_vars


(***************************************************************************)
(* Properties of parse                                                     *)
(***************************************************************************)

Last(s) == s[Len(s)]

\* the pages of the document on which Camelot fails
FailedPages == {k \in 1..Len(file.pages) : ~file.pages[k].camelot_ok}

\* the least element of a non-empty set of numbers
Min(S) == CHOOSE j \in S : \A k \in S : j <= k

\* the lines of a page that name an owner, the blocks in their order and the
\* lines of a block in their order, and the owner of the first of them
BlockLines(page) == concat(tuple([b \in 1..Len(page.blocks) |-> splitlines(page.blocks[b])]))

OwnerLines(lines) == {j \in 1..Len(lines) : re_match(NAME_CF, strip(lines[j])).ok}

NoOwner == [locatore_surname |-> None, locatore_name |-> None, locatore_codice_fiscale |-> None]

FirstOwnerOn(page) ==
    LET lines == BlockLines(page)
        hits == OwnerLines(lines)
    IN
    IF hits = {} THEN NoOwner
    ELSE LET line == strip(lines[Min(hits)])
             m == re_match(NAME_CF, line)
         IN  [locatore_surname |-> group(m, line, 1),
              locatore_name |-> group(m, line, 2),
              locatore_codice_fiscale |-> group(m, line, 3)]

OwnerOf(record) ==
    [locatore_surname |-> record["locatore_surname"],
     locatore_name |-> record["locatore_name"],
     locatore_codice_fiscale |-> record["locatore_codice_fiscale"]]

\* the lines of the text of a page that name a comune, and the comune of the
\* first of them
PageLines(page) == splitlines(get_text(page))

ComuneLines(lines) == {j \in 1..Len(lines) : re_search(COMUNE_TABLE, strip(lines[j])).ok}

FirstComuneOn(page) ==
    LET lines == PageLines(page)
        hits == ComuneLines(lines)
    IN
    IF hits = {} THEN <<None, None>>
    ELSE LET line == strip(lines[Min(hits)])
             m == re_search(COMUNE_TABLE, line)
         IN  <<group(m, line, 1), group(m, line, 2)>>

\* the table a record was built from, and its row in the grid
TableOfRecord(i) == file.pages[rec_src[i].page].tables[rec_src[i].table]
RowOfRecord(i) == TableOfRecord(i)[rec_src[i].row]

\* the header row of a table names a registry of persons: one of its cells,
\* line breaks read as blanks and case ignored, holds one of the markers
HasRegistryMarker(df) ==
    \E c \in 1..Len(df[header_row_of(df) + 1]) :
        \E marker \in {Str("DATI ANAGRAFICI"), Str("DIRITTI E ONERI REALI")} :
            str_contains(str_upper(str_replace(df[header_row_of(df) + 1][c],
                                               Str("\n"), Str(" "), -1)),
                         marker)

HasRealEstateCell(df) ==
    \E c \in 1..Len(df[header_row_of(df) + 1]) :
        strip(df[header_row_of(df) + 1][c])
            \in {Str("Foglio"), Str("Numero"), Str("Sub"), Str("Categoria"), Str("Classe")}

\* the records the tables of a page give, from table t on, under the owner
\* name and the comune of the page
RECURSIVE RecordsOfTables(_, _, _, _)
RecordsOfTables(doc, name, k, t) ==
    IF t > Len(doc.pages[k].tables) THEN <<>>
    ELSE enriched(TableOf[doc.pages[k].tables[t]].immobili, name, ComuneOf[doc.pages[k]])
         \o RecordsOfTables(doc, name, k, t + 1)

\* the records of the pages from page k on, a page on which Camelot fails
\* giving none
RECURSIVE RecordsOfPages(_, _, _)
RecordsOfPages(doc, name, k) ==
    IF k > Len(doc.pages) THEN <<>>
    ELSE (IF doc.pages[k].camelot_ok THEN RecordsOfTables(doc, name, k, 1) ELSE <<>>)
         \o RecordsOfPages(doc, name, k + 1)

\* C1: when the document was opened, the handle is closed exactly once before
\* parse returns or raises, whichever step ends the run; the handle is open
\* only inside the body of parse; when opening fails there is no handle and
\* close is never called.
C1_HandleClosedExactlyOnce ==
    /\ closes <= 1
    /\ handle = "open" => pc \in {"name_cf", "page", "table", "finally"}
    /\ (pc = "done" /\ file.openable) => (handle = "closed" /\ closes = 1)
    /\ ~file.openable => (handle = "none" /\ closes = 0)

\* a parse ended by an exception, and one ended by its return, the handle
\* closed once
C1_Witness ==
    /\ pc = "done"
    /\ Len(observed) = 1
    /\ observed[1].raised
    /\ observed[1].exc = "ValueError"
    /\ handle = "closed"
    /\ closes = 1

\* C2: if table extraction fails on a page of an opened document, parse
\* returns normally, the page gives no record, and every other page gives
\* the records it gives anyway.
C2_PageFailureIsolated ==
    (pc = "done" /\ file.openable /\ FailedPages # {}) =>
        /\ ~Last(observed).raised
        /\ Last(observed).value = RecordsOfPages(file, name_data, 1)
        /\ \A i \in DOMAIN rec_src : rec_src[i].page \notin FailedPages

\* C3: once the document is opened, parse returns a list and never raises to
\* its caller.
C3_NeverRaisesAfterOpen ==
    \A i \in DOMAIN observed : ~observed[i].raised

\* C4: when the document cannot be opened, parse returns an empty list, and
\* what the caller observes differs from what it observes of a document that
\* opens and holds no property row.
C4_OpenFailureReported ==
    pc = "done" =>
        /\ ~file.openable => (~Last(observed).raised /\ Last(observed).value = <<>>)
        /\ (file.openable /\ ~Last(observed).raised /\ Last(observed).value = <<>>)
               => Last(observed) # OpenFailureOutcome

\* C5: a table whose header row holds a marker of the registry of persons
\* gives no record, whatever else its header holds: no record of the output
\* was built from such a table.
C5_RegistryTableGivesNoRecord ==
    \A i \in DOMAIN rec_src : ~HasRegistryMarker(TableOfRecord(i))

\* a registry table with a cell Foglio in its header went through
\* _process_table, and the list holds the records of another table only
C5_Witness ==
    /\ pc = "done"
    /\ ~Last(observed).raised
    /\ Len(Last(observed).value) > 0
    /\ \E k \in 1..Len(file.pages) :
           /\ file.pages[k].camelot_ok
           /\ \E t \in 1..Len(file.pages[k].tables) :
                  /\ Len(file.pages[k].tables[t]) >= 2
                  /\ Len(file.pages[k].tables[t]) > header_row_of(file.pages[k].tables[t]) + 1
                  /\ HasRegistryMarker(file.pages[k].tables[t])
                  /\ HasRealEstateCell(file.pages[k].tables[t])

\* C6: the comune and its code on a record are those of the first line of
\* the page of the record's table that names a comune, both None when the
\* page has no such line, whatever the pages before had.
C6_ComuneOfThePage ==
    \A k \in {rec_src[i].page : i \in DOMAIN rec_src} :
        LET first == FirstComuneOn(file.pages[k])
        IN  \A i \in DOMAIN all_immobili :
                rec_src[i].page = k =>
                    <<all_immobili[i]["immobile_comune"],
                      all_immobili[i]["immobile_comune_code"]>> = first

\* a record of page 2 without comune after a page 1 that names one
C6_Witness ==
    /\ pc = "done"
    /\ Len(file.pages) = 2
    /\ FirstComuneOn(file.pages[1]) # <<None, None>>
    /\ \E i \in DOMAIN all_immobili :
           /\ rec_src[i].page = 2
           /\ all_immobili[i]["immobile_comune"] = None
           /\ all_immobili[i]["immobile_comune_code"] = None

\* C7: every record carries the owner of the first line of page 1, in block
\* order then line order, that the name/CF pattern matches, None three times
\* when page 1 has none; later pages are not read for it, and the records are
\* otherwise those the tables give.
C7_OwnerOfPageOne ==
    (all_immobili # <<>> \/ (pc = "done" /\ file.openable /\ ~Last(observed).raised)) =>
        LET first == FirstOwnerOn(file.pages[1])
        IN  /\ \A i \in DOMAIN all_immobili : OwnerOf(all_immobili[i]) = first
            /\ (pc = "done" /\ file.openable /\ ~Last(observed).raised) =>
                   Last(observed).value =
                       RecordsOfPages(file,
                                      [locatore_surname |-> first.locatore_surname,
                                       locatore_name |-> first.locatore_name,
                                       cf |-> first.locatore_codice_fiscale],
                                      1)

\* records without owner of a document whose page 2 names one
C7_Witness ==
    /\ pc = "done"
    /\ Len(file.pages) = 2
    /\ FirstOwnerOn(file.pages[1]) = NoOwner
    /\ FirstOwnerOn(file.pages[2]) # NoOwner
    /\ Len(all_immobili) > 0
    /\ \A i \in DOMAIN all_immobili : OwnerOf(all_immobili[i]) = NoOwner

\* C8: indirizzo_raw of a record is the text of the address cell of its row
\* as it stands in the grid, and superficie_raw the text of its area cell.
C8_RawIsTheCell ==
    \A i \in DOMAIN all_immobili :
        \A c \in 1..Len(normalized_header_of(TableOfRecord(i))) :
            /\ str_contains(normalized_header_of(TableOfRecord(i))[c], Str("indirizzo"))
                   => all_immobili[i]["indirizzo_raw"] = RowOfRecord(i)[c]
            /\ normalized_header_of(TableOfRecord(i))[c] = Str("superficie_catastale")
                   => all_immobili[i]["superficie_raw"] = RowOfRecord(i)[c]

\* the six components of an address
AddressComponents == {"via_type", "via_name", "via_num", "scala", "interno", "piano"}

\* a text of blanks only, or empty
IsBlank(text) == \A j \in 1..Len(text) : text[j] \in WHITESPACE

\* C9: each component the address parser gives is None or a non-empty text
\* that stands in the input as it is; of an empty or blank input all six are
\* None.
C9_NoFabrication ==
    (call.fn = "_parse_address" /\ call.done) =>
        /\ \A key \in AddressComponents :
               \/ call.ret[key] = None
               \/ Len(call.ret[key]) > 0 /\ str_contains(call.arg, call.ret[key])
        /\ IsBlank(call.arg) => \A key \in AddressComponents : call.ret[key] = None

\* C10: two calls of parse on the same unchanged document give the caller
\* the same outcome, the same records in the same order.
C10_Idempotent ==
    \A i, j \in DOMAIN observed : observed[i] = observed[j]

\* two finished calls that returned records
C10_Witness ==
    /\ pc = "done"
    /\ Len(observed) = 2
    /\ ~observed[2].raised
    /\ Len(observed[2].value) >= 2

(***************************************************************************)
(* Properties of the address parser                                        *)
(***************************************************************************)

\* a call of the address parser has returned
AddressParsed == call.fn = "_parse_address" /\ call.done

\* the words of a text, in upper case: its maximal runs without whitespace
RECURSIVE WordsFrom(_, _, _, _)
WordsFrom(text, j, word, found) ==
    IF j > Len(text)
    THEN (IF word = <<>> THEN found ELSE found \cup {word})
    ELSE IF text[j] \in WHITESPACE
    THEN WordsFrom(text, j + 1, <<>>, IF word = <<>> THEN found ELSE found \cup {word})
    ELSE WordsFrom(text, j + 1, Append(word, text[j]), found)

Words(text) == WordsFrom(str_upper(text), 1, <<>>, {})

StaircaseMarkers == {Str("SCALA"), Str("SC."), Str("SC")}
UnitMarkers == {Str("INTERNO"), Str("INT."), Str("INT")}

\* C11: when the civic-number step matches the token SNC, in any case, alone
\* or after "n.", via_num is None and SNC is no part of via_name.
C11_SncIsNoNumber ==
    AddressParsed =>
        LET raw == strip(str_replace(call.arg, Str("\n"), Str(" "), -1))
            m == re_search(VIA_NUM_PATTERN, raw)
        IN  (m.ok /\ str_upper(group(m, raw, 1)) = Str("SNC")) =>
                /\ call.ret.via_num = None
                /\ call.ret.via_name # None =>
                       ~str_contains(str_upper(call.ret.via_name), Str("SNC"))

\* C12: an address PIAZZA <name>, with or without civic number and without
\* floor marker, has via_type PIAZZA, via_name <name> and no piano.
C12_PiazzaIsNoFloor ==
    AddressParsed =>
        \A name \in PiazzaNames, civic \in PiazzaCivics :
            call.arg = Str("PIAZZA ") \o name \o civic =>
                /\ call.ret.via_type = Str("PIAZZA")
                /\ call.ret.via_name = name
                /\ call.ret.piano = None

\* C13: a floor written as a name after "Piano" or "P.", in any case, gives
\* piano that name in upper case.
C13_FloorNameUpperCase ==
    AddressParsed =>
        \A floor \in FloorMarkers, name \in FloorNames :
            call.arg = Str("VIA VERDI n. 3 ") \o floor \o Str(" ") \o name =>
                call.ret.piano = str_upper(name)

\* C14: with several numbers after the street type and no "n.", via_num is
\* the last number and the earlier number stays in via_name.
C14_LastNumberIsCivic ==
    AddressParsed =>
        \A type \in RoadTypes, word \in RoadWords, number \in RoadNumbers,
           last \in LastNumbers :
            call.arg = RoadAddress(type, word, number, last) =>
                /\ call.ret.via_type = type
                /\ call.ret.via_name = word \o Str(" ") \o number
                /\ call.ret.via_num = last

\* C15: <type> <name> n. <number> followed by any of the markers Scala,
\* Interno, Piano or P. with a value gives via_num the number, every marker
\* present its value in its own field, None for every marker absent, and
\* via_name the name.
C15_UnitsInTheirFields ==
    AddressParsed =>
        \A type \in StreetTypes, name \in StreetNames, num \in CivicNumbers,
           sc \in ScalaValues, int \in InternoValues, floor \in FloorMarkers,
           p \in PianoValues :
            call.arg = UnitAddress(type, name, num, sc, int, floor, p) =>
                /\ call.ret.via_num = num
                /\ call.ret.scala = sc
                /\ call.ret.interno = int
                /\ call.ret.piano = p
                /\ call.ret.via_name = name

\* C16: an address without a word that marks a staircase and without a word
\* that marks a unit has scala and interno None.
C16_NoFakeStaircaseOrUnit ==
    (AddressParsed /\ Words(call.arg) \cap (StaircaseMarkers \cup UnitMarkers) = {}) =>
        /\ call.ret.scala = None
        /\ call.ret.interno = None

\* C17: LOCALITA without the accent, followed by a name, is the street type
\* and the words after it are via_name.
C17_LocalitaWithoutAccent ==
    AddressParsed =>
        \A name \in LocalitaNames :
            call.arg = Str("LOCALITA ") \o name =>
                /\ call.ret.via_type = Str("LOCALITA")
                /\ call.ret.via_name = name

\* C18: a street type abbreviated with a dot gives via_type the abbreviation
\* without the dot, via_name the whole name after it, via_num the number and
\* no piano.
C18_AbbreviatedType ==
    AddressParsed =>
        \A type \in AbbreviatedTypes, name \in AbbreviatedNames :
            call.arg = AbbreviatedAddress(type, name) =>
                /\ call.ret.via_type = type
                /\ call.ret.via_name = name
                /\ call.ret.via_num = Str("12")
                /\ call.ret.piano = None

(***************************************************************************)
(* Properties of the tables                                                *)
(***************************************************************************)

\* the list parse hands to its caller at the end of a run: nothing when it
\* raises
Emitted == IF Last(observed).raised THEN <<>> ELSE Last(observed).value

\* the places in the list of the records built from table t of page k
RecordsFrom(k, t) ==
    {i \in DOMAIN rec_src :
        i <= Len(Emitted) /\ rec_src[i].page = k /\ rec_src[i].table = t}

\* a table with its header row that passes both gates: no marker of the
\* registry of persons and a canonical cadastral name in the header
Accepted(df) ==
    /\ Len(df) > header_row_of(df)
    /\ ~HasRegistryMarker(df)
    /\ HasRealEstateCell(df)

\* the keys of the context of a record: the owner and the comune
ContextKeys ==
    {"locatore_surname", "locatore_name", "locatore_codice_fiscale",
     "immobile_comune", "immobile_comune_code"}

\* the columns of a table that are copied as they are: neither the address
\* nor the area, nor a column under the name of a key of the context
PlainColumns(df) ==
    {c \in 1..Len(normalized_header_of(df)) :
        /\ ~str_contains(normalized_header_of(df)[c], Str("indirizzo"))
        /\ normalized_header_of(df)[c] # Str("superficie_catastale")
        /\ KeyOf(normalized_header_of(df)[c]) \notin ContextKeys}

\* record i holds, under the names of the header row, the cells of grid row
\* row of the table
IsRecordOfRow(i, df, row) ==
    LET header == normalized_header_of(df)
    IN  \A c \in PlainColumns(df) :
            /\ KeyOf(header[c]) \in DOMAIN Emitted[i]
            /\ Emitted[i][KeyOf(header[c])] = strip(df[row][c])

\* C19: at the end of a parse of an opened document, an accepted table of R
\* grid rows on a page Camelot read has given exactly the records of its data
\* rows: R-2 records under a grouping banner, with the names of row 1, R-1
\* records otherwise, with the names of row 0; one record per data row, in row
\* order, none for the banner and the header; no record when there is no data
\* row.
C19_OneRecordPerDataRow ==
    (pc = "done" /\ file.openable) =>
        \A k \in 1..Len(file.pages) :
            file.pages[k].camelot_ok =>
                \A t \in 1..Len(file.pages[k].tables) :
                    LET df == file.pages[k].tables[t]
                        recs == RecordsFrom(k, t)
                    IN  (df # <<>> /\ Accepted(df)) =>
                            /\ Cardinality(recs) = Len(df) - (header_row_of(df) + 1)
                            /\ {rec_src[i].row : i \in recs}
                                   = (header_row_of(df) + 2)..Len(df)
                            /\ \A i, j \in recs : i < j => rec_src[i].row < rec_src[j].row
                            /\ \A i \in recs : IsRecordOfRow(i, df, rec_src[i].row)

\* the table whose processing ended the parse with an exception
RaisingTable == tables[table_idx + 1]

TableRaised ==
    /\ pc \in {"finally", "done"}
    /\ pending_exc # ""
    /\ page_idx < Len(file.pages)
    /\ table_idx < Len(tables)

\* C20: every record was built from a table whose header row holds one of
\* the cells Foglio, Numero, Sub, Categoria, Classe; and a table that ends a
\* parse with an exception is not empty and, when it has its header row, the
\* header holds one of these cells: a table without them, and an empty table,
\* gives no record and raises nothing.
C20_OnlyCadastralTables ==
    /\ \A i \in DOMAIN rec_src :
           TableOfRecord(i) # <<>> /\ HasRealEstateCell(TableOfRecord(i))
    /\ TableRaised =>
           /\ RaisingTable # <<>>
           /\ Len(RaisingTable) > header_row_of(RaisingTable)
                  => HasRealEstateCell(RaisingTable)

\* a page with a layout table, a table of real estate and an empty table
\* was parsed to its end: the list holds the records of the second only
C20_Witness ==
    /\ pc = "done"
    /\ ~Last(observed).raised
    /\ \E k \in 1..Len(file.pages) :
           /\ file.pages[k].camelot_ok
           /\ \E t \in 1..Len(file.pages[k].tables) :
                  /\ file.pages[k].tables[t] # <<>>
                  /\ ~HasRealEstateCell(file.pages[k].tables[t])
                  /\ ~HasRegistryMarker(file.pages[k].tables[t])
           /\ \E t \in 1..Len(file.pages[k].tables) : file.pages[k].tables[t] = <<>>
           /\ \E i \in DOMAIN rec_src : rec_src[i].page = k
           /\ Len(Last(observed).value) = Len(rec_src)

(***************************************************************************)
(* Properties of the column names                                          *)
(***************************************************************************)

HeaderNamed == call.fn = "header_name" /\ call.done

\* the letters A-Z, a-z and the digits
Alphanumeric == ASCII_UPPER \cup ASCII_LOWER \cup DIGITS

\* the text from character j on in lower case, each maximal run of other
\* characters as one underscore, none at either end; out is the name so far,
\* gap says that a run was passed since the last character of out
RECURSIVE SnakeFrom(_, _, _, _)
SnakeFrom(text, j, out, gap) ==
    IF j > Len(text) THEN out
    ELSE IF text[j] \in Alphanumeric
    THEN SnakeFrom(text, j + 1,
                   (IF gap /\ out # <<>> THEN Append(out, "_") ELSE out)
                       \o <<char_lower(text[j])>>,
                   FALSE)
    ELSE SnakeFrom(text, j + 1, out, TRUE)

SnakeCase(text) == SnakeFrom(text, 1, <<>>, FALSE)

\* the header cell as the table processing reads it: line breaks as blanks,
\* outer blanks removed
HeaderText(cell) == strip(str_replace(cell, Str("\n"), Str(" "), -1))

\* C21: the name of the header cell at column index i is
\* "table_num_immobile" when the cell is empty and i = 0, "classe" when it is
\* empty and i = 8, "consistenza" when it reads "Classe Consistenza", and in
\* every other case the cell text in lower case with each maximal run of
\* characters other than A-Z, a-z, 0-9 as one underscore and no underscore at
\* either end; the rules of position come first.
C21_ColumnName ==
    HeaderNamed =>
        LET idx == call.arg[1]
            text == HeaderText(call.arg[2])
        IN  call.ret =
                IF text = <<>> /\ idx = 0 THEN Str("table_num_immobile")
                ELSE IF text = <<>> /\ idx = 8 THEN Str("classe")
                ELSE IF text = Str("Classe Consistenza") THEN Str("consistenza")
                ELSE SnakeCase(text)

\* an empty cell at index 8 was named
C21_Witness ==
    /\ HeaderNamed
    /\ call.arg = <<8, Str(" \n")>>
    /\ call.ret = Str("classe")

(***************************************************************************)
(* Properties of the records of one table                                  *)
(***************************************************************************)

\* _process_table returned the records of its table
GridProcessed ==
    /\ call.fn = "_process_table"
    /\ call.done
    /\ call.ret.exc = ""
    /\ ~call.ret.none

\* the data row record i of the table was built from
DataRow(df, i) == df[header_row_of(df) + 1 + i]

AddressKeys == AddressComponents \cup {"indirizzo_raw"}
AreaKeys == {"superficie_totale", "superficie_escluse", "superficie_raw"}

IsAddressColumn(name) == str_contains(name, Str("indirizzo"))
IsAreaColumn(name) == name = Str("superficie_catastale")

\* the keys the column of this name puts into a record
KeysOfColumn(name) ==
    IF IsAddressColumn(name) THEN AddressKeys
    ELSE IF IsAreaColumn(name) THEN AreaKeys
    ELSE {KeyOf(name)}

\* no column to the right of column c puts key into the record
IsLastFor(header, c, key) ==
    \A d \in (c + 1)..Len(header) : key \notin KeysOfColumn(header[d])

\* C22: in every record built from a data row, a column whose name contains
\* "indirizzo" has put the seven address keys into the record and no key of
\* its own name, the column "superficie_catastale" the three area keys and no
\* key "superficie_catastale", and every other column stands under its name
\* with the trimmed text of its cell (a key several columns put holds what
\* the rightmost of them put).
C22_ColumnsOfARecord ==
    GridProcessed =>
        LET df == call.arg
            header == normalized_header_of(df)
        IN  \A i \in 1..Len(call.ret.immobili) :
                LET record == call.ret.immobili[i]
                IN  \A c \in 1..Len(header) :
                        /\ KeysOfColumn(header[c]) \subseteq DOMAIN record
                        /\ (IsAddressColumn(header[c]) \/ IsAreaColumn(header[c]))
                               => KeyOf(header[c]) \notin DOMAIN record
                        /\ (~IsAddressColumn(header[c]) /\ ~IsAreaColumn(header[c])
                                /\ IsLastFor(header, c, KeyOf(header[c])))
                               => record[KeyOf(header[c])] = strip(DataRow(df, i)[c])

\* the table of two units, with a plain column, the area and the address,
\* gave its two records
C22_Witness ==
    /\ GridProcessed
    /\ call.arg = TableUnits
    /\ Len(call.ret.immobili) = 2
    /\ call.ret.immobili[2]["categoria"] = Str("C/6")
    /\ AddressKeys \cup AreaKeys \subseteq DOMAIN call.ret.immobili[2]

\* the keys the columns of a header put into a record
KeysOfHeader(header) == UNION {KeysOfColumn(header[c]) : c \in 1..Len(header)}

\* C29: the records of one table all have the same keys, those the columns
\* of the normalized header put, whatever the cells of the data rows hold,
\* an empty cell or one in which the parsers find nothing included; of two
\* columns with the same name the record has one entry, with the cell of
\* the rightmost.
C29_KeysOfTheHeader ==
    GridProcessed =>
        LET df == call.arg
            header == normalized_header_of(df)
            keys == KeysOfHeader(header)
        IN  \A i \in 1..Len(call.ret.immobili) :
                LET record == call.ret.immobili[i]
                IN  /\ DOMAIN record = keys
                    /\ \A c, d \in 1..Len(header) :
                           (/\ c < d
                            /\ header[c] = header[d]
                            /\ KeysOfColumn(header[d]) = {KeyOf(header[d])}
                            /\ IsLastFor(header, d, KeyOf(header[d])))
                               => record[KeyOf(header[d])] = strip(DataRow(df, i)[d])

\* a table of two columns that both normalize to "sub": two records, each
\* with the one key and the cell on the right, the second of empty cells
C29_Witness ==
    /\ GridProcessed
    /\ call.arg = <<<<Str("Sub"), Str("sub.")>>,
                    <<Str(" 3 "), Str("Totale: 85 m²")>>,
                    <<Str(""), Str("")>>>>
    /\ Len(call.ret.immobili) = 2
    /\ DOMAIN call.ret.immobili[1] = {"sub"}
    /\ call.ret.immobili[1]["sub"] = Str("Totale: 85 m²")
    /\ DOMAIN call.ret.immobili[2] = {"sub"}

(***************************************************************************)
(* Properties of the list parse returns                                    *)
(***************************************************************************)

\* the place of a record in the document: a is before b
Before(a, b) ==
    \/ a.page < b.page
    \/ a.page = b.page /\ a.table < b.table
    \/ a.page = b.page /\ a.table = b.table /\ a.row < b.row

\* C23: the list parse returns is in document order: of two records the one
\* that is first in the list is of an earlier page, or of the same page and
\* an earlier table, or of the same table and a row above; the list is the
\* records of the pages, page after page and table after table.
C23_DocumentOrder ==
    (pc = "done" /\ file.openable /\ ~Last(observed).raised) =>
        /\ Len(rec_src) = Len(Last(observed).value)
        /\ \A i, j \in DOMAIN rec_src : i < j => Before(rec_src[i], rec_src[j])
        /\ Last(observed).value = RecordsOfPages(file, name_data, 1)

\* a returned list with the records of two pages, of two tables of one page
\* and of two rows of one table
C23_Witness ==
    /\ pc = "done"
    /\ ~Last(observed).raised
    /\ Len(rec_src) = Len(Last(observed).value)
    /\ \E i, j \in DOMAIN rec_src : rec_src[i].page # rec_src[j].page
    /\ \E i, j \in DOMAIN rec_src :
           rec_src[i].page = rec_src[j].page /\ rec_src[i].table # rec_src[j].table
    /\ \E i, j \in DOMAIN rec_src :
           /\ rec_src[i].page = rec_src[j].page
           /\ rec_src[i].table = rec_src[j].table
           /\ rec_src[i].row # rec_src[j].row

\* C30: every record holds the five keys of the context, the owner of the
\* document and the comune of the page of its table, None where the document
\* or the page names none, also when a column of the table normalizes to the
\* name of one of these keys: the cell of that column is not in the record.
C30_ContextOnEveryRecord ==
    all_immobili # <<>> =>
        LET owner == FirstOwnerOn(file.pages[1])
        IN  \A k \in {rec_src[i].page : i \in DOMAIN rec_src} :
                LET first == FirstComuneOn(file.pages[k])
                IN  \A i \in DOMAIN all_immobili :
                        rec_src[i].page = k =>
                            /\ ContextKeys \subseteq DOMAIN all_immobili[i]
                            /\ OwnerOf(all_immobili[i]) = owner
                            /\ all_immobili[i]["immobile_comune"] = first[1]
                            /\ all_immobili[i]["immobile_comune_code"] = first[2]

\* a returned record of the table with the columns "Immobile Comune" and
\* "Locatore Name": the comune of the page and no owner name, not the cells
C30_Witness ==
    /\ pc = "done"
    /\ ~Last(observed).raised
    /\ \E i \in DOMAIN rec_src :
           /\ TableOfRecord(i) = TableContext
           /\ RowOfRecord(i)[2] = Str("NAPOLI")
           /\ RowOfRecord(i)[3] = Str("LUIGI")
           /\ Last(observed).value[i]["immobile_comune"] = Str("MILANO")
           /\ Last(observed).value[i]["locatore_name"] = None

(***************************************************************************)
(* Properties of the calls parse makes                                     *)
(***************************************************************************)

\* the owner extraction, then Camelot once on each of the first n pages in
\* their order
CallsUpTo(n) ==
    <<[op |-> "_extract_name_cf", page |-> 0]>>
        \o tuple([k \in 1..n |-> [op |-> "read_pdf", page |-> k]])

\* C28: within one parse of an opened document the owner extraction is
\* called once, before any page; Camelot is then called on the pages in
\* their order, never twice on a page, and when the parse has ended it was
\* called exactly once on every page of the document.
C28_OncePerPage ==
    /\ pc \in {"open", "name_cf"} => calls = <<>>
    /\ (pc \in {"page", "table", "finally", "done"} /\ file.openable) =>
           \E n \in 0..Len(file.pages) : calls = CallsUpTo(n)
    /\ (pc = "done" /\ file.openable) => calls = CallsUpTo(Len(file.pages))

(***************************************************************************)
(* Properties of the steps of the address parser                           *)
(***************************************************************************)

\* the address as the parser takes it up: line breaks as blanks, trimmed
RawAddress(text) == strip(str_replace(text, Str("\n"), Str(" "), -1))

NoComponents(raw) ==
    [via_type |-> None, via_name |-> None, via_num |-> None, scala |-> None,
     interno |-> None, piano |-> None, indirizzo_raw |-> raw]

\* the text left after the four extractions, trimmed
Residual(text) ==
    strip(extract_units(1, [parsed |-> NoComponents(RawAddress(text)),
                            clean |-> RawAddress(text)]).clean)

\* the street types of the vocabulary, in upper case
StreetTypeTokens ==
    {Str("VIA"), Str("VIALE"), Str("PIAZZA"), Str("P.ZZA"), Str("PZZA"), Str("CORSO"),
     Str("STRADA"), Str("VICOLO"), Str("LARGO"), Str("BORGO"), Str("LOCALITÀ"),
     Str("LOC"), Str("LOC."), Str("FRAZIONE"), Str("FRAZ"), Str("FRAZ."),
     Str("CONTRADA")}

NoteKeywords == {Str("Variazione"), Str("Annotazione"), Str("Aggiornamento")}

\* the places of a text that are blank
Blanks(text) == {j \in 1..Len(text) : text[j] \in WHITESPACE}

\* word stands in text at place j
StandsAt(text, j, word) ==
    j + Len(word) - 1 <= Len(text) /\ SubSeq(text, j, j + Len(word) - 1) = word

\* the places where a name ends: two blanks in a row, or a keyword of a note
NameEnds(text) ==
    {j \in 1..Len(text) :
        \/ j \in Blanks(text) /\ j + 1 \in Blanks(text)
        \/ \E word \in NoteKeywords : StandsAt(text, j, word)}

CutName(text) ==
    IF NameEnds(text) = {} THEN text ELSE SubSeq(text, 1, Min(NameEnds(text)) - 1)

\* the first word of a text and the text after the blanks that follow it
FirstWord(text) ==
    IF Blanks(text) = {} THEN text ELSE SubSeq(text, 1, Min(Blanks(text)) - 1)

AfterFirstWord(text) ==
    IF Blanks(text) = {} THEN <<>>
    ELSE lstrip(SubSeq(text, Min(Blanks(text)), Len(text)), WHITESPACE)

\* C24: the street type and the name are read off the text left by the four
\* extractions, trimmed: when it starts with a street type of the vocabulary
\* and a blank, via_type is that word and via_name the text after it up to
\* the first two blanks in a row or the first of the keywords "Variazione",
\* "Annotazione", "Aggiornamento", trimmed; otherwise via_type is None and
\* via_name the whole of that text, keyword or not.
C24_TypeAndNameOfTheResidual ==
    AddressParsed =>
        LET residual == Residual(call.arg)
        IN  IF Blanks(residual) # {} /\ str_upper(FirstWord(residual)) \in StreetTypeTokens
            THEN /\ call.ret.via_type = FirstWord(residual)
                 /\ call.ret.via_name = strip(CutName(AfterFirstWord(residual)))
            ELSE /\ call.ret.via_type = None
                 /\ call.ret.via_name = residual

\* a text without street type keeps its note
C24_Witness ==
    /\ AddressParsed
    /\ call.arg = Str("BORGATA ROSSI Aggiornamento")
    /\ call.ret.via_type = None
    /\ call.ret.via_name = Str("BORGATA ROSSI Aggiornamento")

\* one extraction: the pattern is searched in text; when it matches, value
\* is its group grp, trimmed, and the text has one blank in the place of the
\* matched occurrence; when it does not, value is None and the text as it was
Extraction(pattern, grp, text) ==
    LET m == re_search(pattern, text)
    IN  IF m.ok
        THEN [value |-> strip(group(m, text, grp)),
              text |-> SubSeq(text, 1, m.start - 1) \o Str(" ")
                           \o SubSeq(text, m.end, Len(text))]
        ELSE [value |-> None, text |-> text]

\* C25: the four patterns are applied in the order civic number, staircase,
\* unit, floor, each to the text the step before left; a pattern that matches
\* gives its field and has the matched occurrence, and nothing else, replaced
\* by one blank; a pattern that does not match leaves field and text as they
\* were; the street type and the name are read from what is left after the
\* fourth, so they hold nothing of what an extraction took.
C25_ExtractionsInOrder ==
    AddressParsed =>
        LET civic == Extraction(VIA_NUM_PATTERN, 1, RawAddress(call.arg))
            staircase == Extraction(SCALA_PATTERN, 2, civic.text)
            unit == Extraction(INTERNO_PATTERN, 2, staircase.text)
            floor == Extraction(PIANO_PATTERN, 2, unit.text)
            left == strip(floor.text)
        IN  /\ call.ret.via_num = civic.value
            /\ call.ret.scala = staircase.value
            /\ call.ret.interno = unit.value
            /\ call.ret.piano = floor.value
            /\ Residual(call.arg) = left
            /\ call.ret.via_type # None => str_contains(left, call.ret.via_type)
            /\ str_contains(left, call.ret.via_name)

\* an address of which each of the four patterns took its part
C25_Witness ==
    /\ AddressParsed
    /\ call.arg = Str("VIALE DELLA RIVIERA n. 285 Scala U Interno 1 Piano 1")
    /\ call.ret.via_num = Str("285")
    /\ call.ret.scala = Str("U")
    /\ call.ret.interno = Str("1")
    /\ call.ret.piano = Str("1")
    /\ call.ret.via_name = Str("DELLA RIVIERA")

\* the field of a marker of staircase, unit or floor
FieldOf(label) ==
    IF label \in {Str("Scala"), Str("Sc.")} THEN "scala"
    ELSE IF label \in {Str("Interno"), Str("Int.")} THEN "interno"
    ELSE "piano"

\* C26: of an address without civic number that has a marker of staircase,
\* unit or floor with a numeric value, via_num is None and the value stands
\* in the field of its marker.
C26_ValueStaysWithItsMarker ==
    AddressParsed =>
        \A label \in UnitLabels, number \in UnitNumbers :
            call.arg = MarkerOnlyAddress(label, number) =>
                /\ call.ret.via_num = None
                /\ call.ret[FieldOf(label)] = number

(***************************************************************************)
(* Properties of the area parser                                           *)
(***************************************************************************)

AreaParsed == call.fn = "_parse_superficie" /\ call.done

\* the text from place j on starts, after blanks if any, with a number: a
\* run of digits, dots and commas that holds a digit
RECURSIVE NumberFrom(_, _)
NumberFrom(text, j) ==
    IF j > Len(text) THEN <<>>
    ELSE IF text[j] \in DIGITS \cup {".", ","} THEN <<text[j]>> \o NumberFrom(text, j + 1)
    ELSE <<>>

NumberAt(text, j) ==
    LET rest == lstrip(SubSeq(text, j, Len(text)), WHITESPACE)
    IN  \E k \in 1..Len(NumberFrom(rest, 1)) : NumberFrom(rest, 1)[k] \in DIGITS

\* the cell names its total: "Totale:" and a number
NamesTotale(text) ==
    \E j \in 1..Len(text) :
        StandsAt(text, j, Str("Totale:")) /\ NumberAt(text, j + 7)

\* the cell names its total without uncovered areas: "Totale escluse aree
\* scoperte**:" and a number, the label on one line or broken after "aree"
NamesEscluse(text) ==
    \E j \in 1..Len(text) :
        \E label \in {Str("Totale escluse aree scoperte**:"),
                      Str("Totale escluse aree\nscoperte**:")} :
            StandsAt(text, j, label) /\ NumberAt(text, j + Len(label))

\* C27: the area parser raises nothing; superficie_totale is a number
\* exactly when the cell holds "Totale:" and a number, superficie_escluse
\* exactly when it holds "Totale escluse aree scoperte**:" and a number, each
\* whatever the other; a cell with neither gives None twice.
C27_TwoAreasEachOnItsOwn ==
    AreaParsed =>
        /\ call.ret.exc = ""
        /\ call.ret.val.superficie_totale # None <=> NamesTotale(call.arg)
        /\ call.ret.val.superficie_escluse # None <=> NamesEscluse(call.arg)

====
